---- MODULE Spec2Model ----
(***************************************************************************)
(* NeuroLearn: the LLM-output sanitization and recovery pipeline           *)
(* (modules/quiz_generator.py, modules/simplify_text.py), the streak count *)
(* (modules/gamification.py) and the session of the two tabs (app.py).     *)
(*                                                                         *)
(* Text is a sequence of one-character strings.  The specifications are:   *)
(*   SpecNormalize  clean_input_text applied once and twice                *)
(*   SpecValidate   _validate_quiz applied to a recovered object           *)
(*   SpecRecover    extract_json_safely, one strategy per step             *)
(*   SpecQuiz       generate_quiz from the key check to the validated      *)
(*                  quiz, beside direct calls of _validate_quiz            *)
(*   SpecSimplify   simplify_text from the key check to the cleaned bullet *)
(*                  list, clean_output_text included                       *)
(*   SpecPipelines  one invocation of generate_quiz or of simplify_text    *)
(*   SpecStreak     calculate_streak on a list of session days             *)
(*   SpecSession    the runs of the reader tab and the quiz tab            *)
(***************************************************************************)
EXTENDS Integers, Sequences, FiniteSets, TLC

VARIABLES
    nModule,    \* which module's clean_input_text runs: "quiz" or "simplify"
    nText,      \* the raw input text
    nOnce,      \* clean_input_text(nText), once computed
    nTwice,     \* clean_input_text(clean_input_text(nText)), once computed
    nPc,        \* "start", "once", "twice"
    vQuiz,      \* the recovered object handed to _validate_quiz
    vResult,    \* what _validate_quiz returned or raised
    vPc,        \* "start", "done"
    rRaw,       \* the raw reply handed to extract_json_safely
    rCleaned,   \* cleaned = clean_json_output(text)
    rAttempts,  \* the strategies reached so far, in order, each with its outcome
    rResult,    \* what extract_json_safely returned or raised
    rPc,        \* "start", "strategy2", "strategy3", "strategy4", "returned", "raised"
    gText,      \* generate_quiz's text argument
    gKey,       \* generate_quiz's api_key argument
    gReply,     \* what the backend will answer once it is called
    gCleaned,   \* cleaned_input
    gBackend,   \* the backend generate_quiz called: "openai", "gemini" or "none"
    gRequests,  \* the providers generate_quiz sent a request to, in order
    gResult,    \* what generate_quiz returned or raised
    gPc,        \* "start", "calling", "recovering", "validating", "done"
    sText,      \* simplify_text's text argument
    sKey,       \* simplify_text's api_key argument
    sReply,     \* what the backend will answer once it is called
    sCleaned,   \* cleaned_input
    sRequests,  \* the providers simplify_text sent a request to, in order
    sRaw,       \* raw_output = _extract_text_from_response(result)
    sOutput,    \* cleaned_output = clean_output_text(raw_output)
    sResult,    \* what simplify_text returned or raised
    sPc,        \* "start", "calling", "cleaning", "done"
    dates_list, \* calculate_streak's argument: ISO dates, in any order, repeats allowed
    today,      \* the calendar day on which calculate_streak is called
    dates,      \* sorted({fromisoformat(d).date() for d in dates_list})
    pair,       \* the position of zip(dates, dates[1:]) the loop is at
    streak,     \* the loop's running count
    longest,    \* the loop's maximum so far
    cResult,    \* what calculate_streak returned
    cPc,        \* "start", "loop", "done"
    uploaded_file,  \* the sidebar's file uploader: NoFile or the file it holds
    view_mode,      \* the reader tab's radio: "Original" or "Simplified"
    pressed,        \* the button that triggered this run: "none", "generate", "submit"
    session_state,  \* st.session_state: the keys the two tabs read and write
    calls,          \* the calls of this run, in order: "extract", "simplify", "generate"
    shown,          \* the widgets the last run rendered: the radio, the two buttons
    uiPc            \* "idle" between runs, "reader", "quiz" inside a run

normVars == <<nModule, nText, nOnce, nTwice, nPc>>
valVars == <<vQuiz, vResult, vPc>>
recVars == <<rRaw, rCleaned, rAttempts, rResult, rPc>>
genVars == <<gText, gKey, gReply, gCleaned, gBackend, gRequests, gResult, gPc>>
simVars == <<sText, sKey, sReply, sCleaned, sRequests, sRaw, sOutput, sResult, sPc>>
streakVars == <<dates_list, today, dates, pair, streak, longest, cResult, cPc>>
uiVars == <<uploaded_file, view_mode, pressed, session_state, calls, shown, uiPc>>
otherVars == <<streakVars, uiVars>>
vars == <<normVars, valVars, recVars, genVars, simVars, otherVars>>

(***************************************************************************)
(* Characters.                                                             *)
(***************************************************************************)
SP  == " "
TAB == "\t"
NL  == "\n"
CR  == "\r"
FF  == "\f"     \* form feed: whitespace, not printable
ZW  == "zw"     \* U+200B zero-width space: neither printable nor whitespace

\* the characters of the model with str.isspace()
Whitespace == {SP, TAB, NL, CR, FF}

\* the characters of the model without str.isprintable()
NonPrintable == {TAB, NL, CR, FF, ZW}

IsSpace(c) == c \in Whitespace

IsPrintable(c) == c \notin NonPrintable

(***************************************************************************)
(* Sequence helpers.                                                       *)
(***************************************************************************)
\* s[:n]
Take(s, n) == SubSeq(s, 1, IF n < Len(s) THEN n ELSE Len(s))

\* s[n:]
Drop(s, n) == SubSeq(s, n + 1, Len(s))

\* "".join(c for c in s if c not in Gone)
FilterOut(s, Gone) == SelectSeq(s, LAMBDA c : c \notin Gone)

\* the length of the run of characters of the set C that starts at position p
RunLenAt(s, p, C) ==
    IF p > Len(s) THEN 0
    ELSE IF \A i \in p..Len(s) : s[i] \in C THEN Len(s) - p + 1
    ELSE (CHOOSE i \in p..Len(s) : s[i] \notin C /\ \A j \in p..(i - 1) : s[j] \in C) - p

\* the length of the run of characters outside the set C that starts at position p
RunLenNotAt(s, p, C) ==
    IF p > Len(s) THEN 0
    ELSE IF \A i \in p..Len(s) : s[i] \notin C THEN Len(s) - p + 1
    ELSE (CHOOSE i \in p..Len(s) : s[i] \in C /\ \A j \in p..(i - 1) : s[j] \notin C) - p

\* the length of the run of characters of the set C that starts s
RunLen(s, C) == RunLenAt(s, 1, C)

\* the length of the run of characters of the set C that ends s
RunLenEnd(s, C) ==
    IF \A i \in 1..Len(s) : s[i] \in C THEN Len(s)
    ELSE Len(s) - (CHOOSE i \in 1..Len(s) : s[i] \notin C /\ \A j \in (i + 1)..Len(s) : s[j] \in C)

\* the length of the run of characters outside the set C that starts s
RunLenNot(s, C) == RunLenNotAt(s, 1, C)

\* the length of the run of characters other than c that starts s
RunLenUntil(s, c) == RunLenNot(s, {c})

\* the characters of s whose position satisfies keep, each replaced by its image
\* under map: marked[i] is <<image, keep>>
KeepMarked(marked) ==
    LET kept == SelectSeq(marked, LAMBDA m : m[2])
    IN  [i \in 1..Len(kept) |-> kept[i][1]]

\* str.strip(): leading and trailing whitespace removed
Strip(s) ==
    IF \A i \in 1..Len(s) : IsSpace(s[i]) THEN <<>>
    ELSE SubSeq(s, RunLen(s, Whitespace) + 1, Len(s) - RunLenEnd(s, Whitespace))

\* re.sub(r'\r\n|\r', '\n', s): every "\r" becomes "\n" and a "\n" that follows
\* a "\r" goes with it
NormalizeLineBreaks(s) ==
    KeepMarked([i \in 1..Len(s) |->
        <<IF s[i] = CR THEN NL ELSE s[i], ~(s[i] = NL /\ i > 1 /\ s[i - 1] = CR)>>])

\* re.sub(r'\n{3,}', '\n\n', s): of a run of 3 or more "\n" the first two stay
CollapseLineBreaks(s) ==
    KeepMarked([i \in 1..Len(s) |->
        <<s[i], ~(s[i] = NL /\ i > 2 /\ s[i - 1] = NL /\ s[i - 2] = NL)>>])

\* re.sub(r' +', ' ', s): of a run of spaces the first stays
CollapseSpaces(s) ==
    KeepMarked([i \in 1..Len(s) |-> <<s[i], ~(s[i] = SP /\ i > 1 /\ s[i - 1] = SP)>>])

\* s.split('\n'): the sequence of lines (always at least one)
RECURSIVE SplitLines(_)
SplitLines(s) ==
    IF \A i \in 1..Len(s) : s[i] # NL THEN <<s>>
    ELSE LET k == RunLenUntil(s, NL)
         IN  <<Take(s, k)>> \o SplitLines(Drop(s, k + 1))

\* '\n'.join(lines)
RECURSIVE JoinLines(_)
JoinLines(lines) ==
    IF Len(lines) = 0 THEN <<>>
    ELSE IF Len(lines) = 1 THEN lines[1]
    ELSE lines[1] \o <<NL>> \o JoinLines(Tail(lines))

\* '\n'.join(line.strip() for line in s.split('\n'))
StripLines(s) ==
    LET lines == SplitLines(s)
    IN  JoinLines([i \in 1..Len(lines) |-> Strip(lines[i])])

\* s.replace('\t', ' ')
ReplaceTabs(s) == [i \in 1..Len(s) |-> IF s[i] = TAB THEN SP ELSE s[i]]

\* the truncation marker "..."
Ellipsis == <<".", ".", ".">>

\* a mutant of LimitLength: the text is cut so that the marker fits the limit
LimitLengthWithinLimit(s, max_length) ==
    IF Len(s) > max_length THEN Take(s, max_length - 3) \o Ellipsis ELSE s

\* if len(s) > max_length: s[:max_length] + "..."
LimitLength(s, max_length) ==
    IF Len(s) > max_length THEN Take(s, max_length) \o Ellipsis ELSE s

QuizMaxLength == 10000
SimplifyMaxLength == 8000

\* clean_input_text, steps 1 to 7 in the order of the code: the text after the
\* final trim
TrimmedText(text) ==
    LET s1 == FilterOut(text, NonPrintable \ Whitespace)
        s2 == NormalizeLineBreaks(s1)
        s3 == CollapseLineBreaks(s2)
        s4 == CollapseSpaces(s3)
        s5 == StripLines(s4)
        s6 == ReplaceTabs(s5)
    IN  Strip(s6)

\* clean_input_text, steps 1 to 8 in the order of the code
CleanInputText(text, max_length) ==
    IF text = <<>> THEN <<>>
    ELSE LimitLength(TrimmedText(text), max_length)

MaxLengthOf(m) == IF m = "quiz" THEN QuizMaxLength ELSE SimplifyMaxLength

(***************************************************************************)
(* JSON values, as json.loads builds them.                                 *)
(***************************************************************************)
Str(s) == [t |-> "str", s |-> s]
Null == [t |-> "null"]
List(xs) == [t |-> "list", items |-> xs]
\* a dict: its keys in insertion order (no key twice) and their values
Dict(ks, vs) == [t |-> "dict", keys |-> ks, vals |-> vs]

KeyMcq == <<"m", "c", "q">>
KeyShort == <<"s", "h", "o", "r", "t">>
KeyQ == <<"q">>
KeyOptions == <<"o", "p", "t", "i", "o", "n", "s">>
KeyAnswer == <<"a", "n", "s", "w", "e", "r">>

\* k in d
DictHas(d, k) == \E i \in 1..Len(d.keys) : d.keys[i] = k

\* d.get(k, default)
DictGet(d, k, default) ==
    IF DictHas(d, k)
    THEN d.vals[CHOOSE i \in 1..Len(d.keys) : d.keys[i] = k]
    ELSE default

\* x == y for a str x and any JSON value y
StrEq(s, v) == v.t = "str" /\ v.s = s

\* s in xs, for a str s and a list xs
StrIn(s, xs) == \E i \in 1..Len(xs) : StrEq(s, xs[i])

(***************************************************************************)
(* json.loads.  Positions are 1-based; an error reports Python's 0-based   *)
(* position.  The texts of the model hold no backslash, so a string has no *)
(* escape sequences.                                                       *)
(***************************************************************************)
DQ == "\""
Digits == {"0", "1", "2", "3", "4", "5", "6", "7", "8", "9"}

\* json.decoder.WHITESPACE
JsonWs == {SP, TAB, NL, CR}

\* the characters below U+0020, which a strict JSON string may not hold
ControlChars == {TAB, NL, CR, FF}

\* s[p:p+1], "" past the end
CharAt(s, p) == IF p >= 1 /\ p <= Len(s) THEN s[p] ELSE ""

\* WHITESPACE.match(s, p).end()
SkipWs(s, p) == p + RunLenAt(s, p, JsonWs)

\* s.startswith(lit, p)
StartsWithAt(s, lit, p) ==
    p + Len(lit) - 1 <= Len(s) /\ SubSeq(s, p, p + Len(lit) - 1) = lit

Parsed(v, p) == [ok |-> TRUE, val |-> v, pos |-> p, msg |-> ""]
JSONDecodeError(msg, p) == [ok |-> FALSE, val |-> Null, pos |-> p - 1, msg |-> msg]

\* dict(pairs): a repeated key keeps its first place and takes the last value
DictPut(d, k, v) ==
    IF DictHas(d, k)
    THEN Dict(d.keys, [i \in 1..Len(d.keys) |-> IF d.keys[i] = k THEN v ELSE d.vals[i]])
    ELSE Dict(Append(d.keys, k), Append(d.vals, v))

\* scanstring(s, p) once the scan has stopped at stop
StringUpTo(s, p, stop) ==
    IF stop > Len(s) THEN JSONDecodeError("Unterminated string starting at", p - 1)
    ELSE IF s[stop] = DQ THEN Parsed(Str(SubSeq(s, p, stop - 1)), stop + 1)
    ELSE JSONDecodeError("Invalid control character at", stop)

\* scanstring(s, p): p is the position after the opening quote
ScanString(s, p) == StringUpTo(s, p, p + RunLenNotAt(s, p, ControlChars \cup {DQ}))

\* (0|[1-9]\d*) at q: the length of the match, 0 when there is none
IntLen(s, q) ==
    IF CharAt(s, q) = "0" THEN 1
    ELSE IF CharAt(s, q) \in Digits THEN RunLenAt(s, q, Digits)
    ELSE 0

\* (\.\d+)? at f: the length of the match
FracLen(s, f) ==
    IF CharAt(s, f) = "." /\ RunLenAt(s, f + 1, Digits) > 0
    THEN 1 + RunLenAt(s, f + 1, Digits)
    ELSE 0

\* [-+]? at e + 1: the length of the match
SignLen(s, e) == IF CharAt(s, e + 1) \in {"-", "+"} THEN 1 ELSE 0

\* ([eE][-+]?\d+)? at e: the length of the match
ExpLen(s, e) ==
    IF CharAt(s, e) \in {"e", "E"} /\ RunLenAt(s, e + SignLen(s, e) + 1, Digits) > 0
    THEN 1 + SignLen(s, e) + RunLenAt(s, e + SignLen(s, e) + 1, Digits)
    ELSE 0

\* (0|[1-9]\d*)(\.\d+)? at q: the length of the match
MantissaLen(s, q) == IntLen(s, q) + FracLen(s, q + IntLen(s, q))

\* NUMBER_RE without its sign at q: the length of the match, 0 when there is none
UnsignedLen(s, q) ==
    IF IntLen(s, q) = 0 THEN 0 ELSE MantissaLen(s, q) + ExpLen(s, q + MantissaLen(s, q))

\* NUMBER_RE.match(s, p): the length of the match, 0 when there is none
NumberLen(s, p) ==
    IF CharAt(s, p) # "-" THEN UnsignedLen(s, p)
    ELSE IF UnsignedLen(s, p + 1) = 0 THEN 0
    ELSE 1 + UnsignedLen(s, p + 1)

\* the number of n characters at p
ParsedNumber(s, p, n) == Parsed([t |-> "num", lit |-> SubSeq(s, p, p + n - 1)], p + n)

LitNull == <<"n", "u", "l", "l">>
LitTrue == <<"t", "r", "u", "e">>
LitFalse == <<"f", "a", "l", "s", "e">>
LitNaN == <<"N", "a", "N">>
LitInfinity == <<"I", "n", "f", "i", "n", "i", "t", "y">>

RECURSIVE ScanOnce(_, _)
RECURSIVE ObjectMembers(_, _, _)
RECURSIVE ArrayElements(_, _, _)

\* JSONObject once the whitespace after "{" is skipped: q is the next position
ObjectFrom(s, p, q) ==
    IF CharAt(s, p) = DQ THEN ObjectMembers(s, p + 1, Dict(<<>>, <<>>))
    ELSE IF CharAt(s, q) = "}" THEN Parsed(Dict(<<>>, <<>>), q + 1)
    ELSE IF CharAt(s, q) # DQ
    THEN JSONDecodeError("Expecting property name enclosed in double quotes", q)
    ELSE ObjectMembers(s, q + 1, Dict(<<>>, <<>>))

\* JSONObject: p is the position after "{"
JSONObject(s, p) == ObjectFrom(s, p, IF CharAt(s, p) \in JsonWs THEN SkipWs(s, p) ELSE p)

\* the loop of JSONObject after a member: end is the position after its value
\* and next the pairs so far
MemberEnd(s, end, next) ==
    IF CharAt(s, end) = "}" THEN Parsed(next, end + 1)
    ELSE IF CharAt(s, end) # "," THEN JSONDecodeError("Expecting ',' delimiter", end)
    ELSE IF CharAt(s, SkipWs(s, end + 1)) # DQ
    THEN JSONDecodeError("Expecting property name enclosed in double quotes",
                         SkipWs(s, end + 1))
    ELSE ObjectMembers(s, SkipWs(s, end + 1) + 1, next)

\* the loop of JSONObject once the member's value is scanned
MemberValue(s, key, value, pairs) ==
    IF ~value.ok THEN value
    ELSE MemberEnd(s, SkipWs(s, value.pos), DictPut(pairs, key.val.s, value.val))

\* the loop of JSONObject once the member's key is scanned: colon is where the
\* ":" has to be
MemberColon(s, key, colon, pairs) ==
    IF CharAt(s, colon) # ":" THEN JSONDecodeError("Expecting ':' delimiter", colon)
    ELSE MemberValue(s, key, ScanOnce(s, SkipWs(s, colon + 1)), pairs)

\* the loop of JSONObject once the member's key is scanned
MemberKey(s, key, pairs) ==
    IF ~key.ok THEN key
    ELSE MemberColon(s, key,
                     IF CharAt(s, key.pos) = ":" THEN key.pos ELSE SkipWs(s, key.pos), pairs)

\* the loop of JSONObject: p is the position after a key's opening quote
ObjectMembers(s, p, pairs) == MemberKey(s, ScanString(s, p), pairs)

\* the loop of JSONArray after an element: end is the position after it and
\* next the values so far
ElementEnd(s, end, next) ==
    IF CharAt(s, end) = "]" THEN Parsed(List(next), end + 1)
    ELSE IF CharAt(s, end) # "," THEN JSONDecodeError("Expecting ',' delimiter", end)
    ELSE ArrayElements(s, SkipWs(s, end + 1), next)

\* the loop of JSONArray once the element is scanned
ElementValue(s, value, values) ==
    IF ~value.ok THEN value
    ELSE ElementEnd(s, SkipWs(s, value.pos), Append(values, value.val))

\* the loop of JSONArray: p is the position of the next element
ArrayElements(s, p, values) == ElementValue(s, ScanOnce(s, p), values)

\* JSONArray: p is the position after "["
JSONArray(s, p) ==
    IF CharAt(s, SkipWs(s, p)) = "]" THEN Parsed(List(<<>>), SkipWs(s, p) + 1)
    ELSE ArrayElements(s, SkipWs(s, p), <<>>)

\* scan_once(s, p): the value that starts at p
ScanOnce(s, p) ==
    LET c == CharAt(s, p)
    IN  IF c = DQ THEN ScanString(s, p + 1)
        ELSE IF c = "{" THEN JSONObject(s, p + 1)
        ELSE IF c = "[" THEN JSONArray(s, p + 1)
        ELSE IF StartsWithAt(s, LitNull, p) THEN Parsed(Null, p + 4)
        ELSE IF StartsWithAt(s, LitTrue, p) THEN Parsed([t |-> "bool", b |-> TRUE], p + 4)
        ELSE IF StartsWithAt(s, LitFalse, p) THEN Parsed([t |-> "bool", b |-> FALSE], p + 5)
        ELSE IF NumberLen(s, p) > 0 THEN ParsedNumber(s, p, NumberLen(s, p))
        ELSE IF StartsWithAt(s, LitNaN, p) THEN Parsed([t |-> "num", lit |-> LitNaN], p + 3)
        ELSE IF StartsWithAt(s, LitInfinity, p)
        THEN Parsed([t |-> "num", lit |-> LitInfinity], p + 8)
        ELSE IF c = "-" /\ StartsWithAt(s, LitInfinity, p + 1)
        THEN Parsed([t |-> "num", lit |-> <<"-">> \o LitInfinity], p + 9)
        ELSE JSONDecodeError("Expecting value", p)

\* json.loads(s) once the value at the start of s is scanned
EndOfDocument(s, obj) ==
    IF ~obj.ok THEN obj
    ELSE IF SkipWs(s, obj.pos) # Len(s) + 1
    THEN JSONDecodeError("Extra data", SkipWs(s, obj.pos))
    ELSE obj

\* json.loads(s)
JsonLoads(s) == EndOfDocument(s, ScanOnce(s, SkipWs(s, 1)))

(***************************************************************************)
(* clean_json_output                                                       *)
(***************************************************************************)
Letters ==
    {"a", "b", "c", "d", "e", "f", "g", "h", "i", "j", "k", "l", "m",
     "n", "o", "p", "q", "r", "s", "t", "u", "v", "w", "x", "y", "z",
     "A", "B", "C", "D", "E", "F", "G", "H", "I", "J", "K", "L", "M",
     "N", "O", "P", "Q", "R", "S", "T", "U", "V", "W", "X", "Y", "Z"}

\* the characters the regex class \w matches
WordChars == Letters \cup Digits \cup {"_"}

BT == "bt"    \* the backtick character
Fence == <<BT, BT, BT>>

\* s[p:p+4] is "json" in any letter case
JsonTagAt(s, p) ==
    /\ CharAt(s, p) \in {"j", "J"}
    /\ CharAt(s, p + 1) \in {"s", "S"}
    /\ CharAt(s, p + 2) \in {"o", "O"}
    /\ CharAt(s, p + 3) \in {"n", "N"}

\* the length of the match of FENCE + r'(?:json)?\s*' (tagged, with
\* re.IGNORECASE) or FENCE + r'\s*' at position i, 0 when there is none; FENCE
\* is three backticks
FenceLenAt(s, i, tagged) ==
    IF ~StartsWithAt(s, Fence, i) THEN 0
    ELSE LET a == IF tagged /\ JsonTagAt(s, i + 3) THEN 7 ELSE 3
         IN  a + RunLenAt(s, i + a, Whitespace)

\* re.sub(FENCE + r'(?:json)?\s*', '', s, flags=re.IGNORECASE) when tagged,
\* re.sub(FENCE + r'\s*', '', s) otherwise
RECURSIVE RemoveFences(_, _)
RemoveFences(s, tagged) ==
    IF \A i \in 1..Len(s) : FenceLenAt(s, i, tagged) = 0 THEN s
    ELSE LET i == CHOOSE i \in 1..Len(s) :
                      /\ FenceLenAt(s, i, tagged) > 0
                      /\ \A j \in 1..(i - 1) : FenceLenAt(s, j, tagged) = 0
         IN  Take(s, i - 1) \o RemoveFences(Drop(s, i - 1 + FenceLenAt(s, i, tagged)), tagged)

\* k copies of the character c
Rep(c, k) == [i \in 1..k |-> c]

\* the length of the body of the match of d ([^c]+) d at position i, for the
\* delimiter d of k characters c; 0 when there is no match
WrappedLenAt(s, i, c, k) ==
    IF ~StartsWithAt(s, Rep(c, k), i) THEN 0
    ELSE LET body == RunLenNotAt(s, i + k, {c})
         IN  IF body >= 1 /\ StartsWithAt(s, Rep(c, k), i + k + body) THEN body ELSE 0

\* re.sub(d ([^c]+) d, r'\1', s) for the delimiter d of k characters c:
\* bold '\*\*([^*]+)\*\*', italic '\*([^*]+)\*' and inline code (backticks)
RECURSIVE Unwrap(_, _, _)
Unwrap(s, c, k) ==
    IF \A i \in 1..Len(s) : WrappedLenAt(s, i, c, k) = 0 THEN s
    ELSE LET i == CHOOSE i \in 1..Len(s) :
                      /\ WrappedLenAt(s, i, c, k) > 0
                      /\ \A j \in 1..(i - 1) : WrappedLenAt(s, j, c, k) = 0
             body == WrappedLenAt(s, i, c, k)
         IN  Take(s, i - 1) \o SubSeq(s, i + k, i + k + body - 1)
                 \o Unwrap(Drop(s, i - 1 + 2 * k + body), c, k)

\* re.sub(r'#+\s*', '', s)
RECURSIVE RemoveHeaders(_)
RemoveHeaders(s) ==
    IF \A i \in 1..Len(s) : s[i] # "#" THEN s
    ELSE LET i == RunLenNot(s, {"#"}) + 1
             a == RunLenAt(s, i, {"#"})
         IN  Take(s, i - 1) \o RemoveHeaders(Drop(s, i - 1 + a + RunLenAt(s, i + a, Whitespace)))

\* s.find(c) + 1: the first position of c, 0 when there is none
Find(s, c) == IF \E i \in 1..Len(s) : s[i] = c THEN RunLenNot(s, {c}) + 1 ELSE 0

\* s.rfind(c) + 1: the last position of c, 0 when there is none
RFind(s, c) ==
    IF \E i \in 1..Len(s) : s[i] = c
    THEN CHOOSE i \in 1..Len(s) : s[i] = c /\ \A j \in (i + 1)..Len(s) : s[j] # c
    ELSE 0

\* the slice from the first "{" to the last "}" when both exist in that order
SliceBraces(s) ==
    IF Find(s, "{") # 0 /\ RFind(s, "}") # 0 /\ RFind(s, "}") > Find(s, "{")
    THEN SubSeq(s, Find(s, "{"), RFind(s, "}"))
    ELSE s

\* re.search(r'\{.*\}', s, re.DOTALL) finds a match
HasBraceSpan(s) == Find(s, "{") # 0 /\ RFind(s, "}") > Find(s, "{")

\* re.search(r'\{.*\}', s, re.DOTALL).group(0)
BraceSpan(s) == SubSeq(s, Find(s, "{"), RFind(s, "}"))

\* clean_json_output, steps 1 to 6 in the order of the code
CleanJsonOutput(text) ==
    IF text = <<>> THEN <<>>
    ELSE LET s1 == RemoveFences(RemoveFences(text, TRUE), FALSE)
             bold == Unwrap(s1, "*", 2)
             italic == Unwrap(bold, "*", 1)
             headers == RemoveHeaders(italic)
             s2 == Unwrap(headers, BT, 1)
             s3 == SliceBraces(s2)
             s4 == FilterOut(s3, NonPrintable \ {NL, TAB})
             s5 == Strip(s4)
         IN  IF CharAt(s5, 1) # "{" /\ HasBraceSpan(s5) THEN BraceSpan(s5) ELSE s5

(***************************************************************************)
(* repair_json                                                             *)
(***************************************************************************)
\* brace_count after the loop has read s[start..i]
BraceCount(s, start, i) ==
    Cardinality({j \in start..i : s[j] = "{"}) - Cardinality({j \in start..i : s[j] = "}"})

\* the brace-matching loop from position start, where s holds "{":
\* <<brace_count, end_idx>> when the loop ends (end_idx 1-based and exclusive as
\* in the code: the position after the matching "}", or start when none matches)
MatchBraces(s, start) ==
    IF \E i \in start..Len(s) : s[i] = "}" /\ BraceCount(s, start, i) = 0
    THEN <<0, 1 + CHOOSE i \in start..Len(s) :
                    /\ s[i] = "}" /\ BraceCount(s, start, i) = 0
                    /\ \A j \in start..(i - 1) : ~(s[j] = "}" /\ BraceCount(s, start, j) = 0)>>
    ELSE <<BraceCount(s, start, Len(s)), start>>

\* the length of the match of r'(\w+):' at position i, 0 when there is none
KeyLenAt(s, i) ==
    LET w == RunLenAt(s, i, WordChars)
    IN  IF w >= 1 /\ CharAt(s, i + w) = ":" THEN w + 1 ELSE 0

\* re.sub(r'(\w+):', r'"\1":', s)
RECURSIVE QuoteKeys(_)
QuoteKeys(s) ==
    IF \A i \in 1..Len(s) : KeyLenAt(s, i) = 0 THEN s
    ELSE LET i == CHOOSE i \in 1..Len(s) :
                      /\ KeyLenAt(s, i) > 0
                      /\ \A j \in 1..(i - 1) : KeyLenAt(s, j) = 0
             n == KeyLenAt(s, i)
         IN  Take(s, i - 1) \o <<DQ>> \o SubSeq(s, i, i + n - 2) \o <<DQ, ":">>
                 \o QuoteKeys(Drop(s, i - 1 + n))

\* the length of the match of r"'([^']*)'" at position i, 0 when there is none
QuotedLenAt(s, i) ==
    IF CharAt(s, i) # "'" THEN 0
    ELSE LET body == RunLenNotAt(s, i + 1, {"'"})
         IN  IF CharAt(s, i + 1 + body) = "'" THEN body + 2 ELSE 0

\* re.sub(r"'([^']*)'", r'"\1"', s)
RECURSIVE DoubleQuotes(_)
DoubleQuotes(s) ==
    IF \A i \in 1..Len(s) : QuotedLenAt(s, i) = 0 THEN s
    ELSE LET i == RunLenNot(s, {"'"}) + 1
             n == QuotedLenAt(s, i)
         IN  Take(s, i - 1) \o <<DQ>> \o SubSeq(s, i + 1, i + n - 2) \o <<DQ>>
                 \o DoubleQuotes(Drop(s, i - 1 + n))

\* the length of the match of a \s* b at position i, 0 when there is none
PairLenAt(s, i, a, b) ==
    IF CharAt(s, i) # a THEN 0
    ELSE LET gap == RunLenAt(s, i + 1, Whitespace)
         IN  IF CharAt(s, i + 1 + gap) = b THEN gap + 2 ELSE 0

\* re.sub(a \s* b, repl, s) for single characters a and b:
\* ',\s*}' -> '}', ',\s*]' -> ']', '}\s*{' -> '},{' and ']\s*\[' -> '],['
RECURSIVE SubPair(_, _, _, _)
SubPair(s, a, b, repl) ==
    IF \A i \in 1..Len(s) : PairLenAt(s, i, a, b) = 0 THEN s
    ELSE LET i == CHOOSE i \in 1..Len(s) :
                      /\ PairLenAt(s, i, a, b) > 0
                      /\ \A j \in 1..(i - 1) : PairLenAt(s, j, a, b) = 0
         IN  Take(s, i - 1) \o repl \o SubPair(Drop(s, i - 1 + PairLenAt(s, i, a, b)), a, b, repl)

\* step 3 of repair_json: the textual substitutions, in the order of the code
FixCommonIssues(json_candidate) ==
    LET keys == QuoteKeys(json_candidate)
        quotes == DoubleQuotes(keys)
        comma1 == SubPair(quotes, ",", "}", <<"}">>)
        comma2 == SubPair(comma1, ",", "]", <<"]">>)
        join1 == SubPair(comma2, "}", "{", <<"}", ",", "{">>)
    IN  SubPair(join1, "]", "[", <<"]", ",", "[">>)

\* repair_json
RepairJson(text) ==
    IF text = <<>> \/ Find(text, "{") = 0 THEN <<"{", "}">>
    ELSE LET start_idx == Find(text, "{")
             m == MatchBraces(text, start_idx)
             brace_count == m[1]
             \* brace_count > 0: text = text[:end_idx] + '}' * brace_count
             closed == Take(text, m[2] - 1) \o Rep("}", brace_count)
             \* brace_count < 0: the position after the first "}" that follows start_idx
             cut == start_idx + 1 + RunLenNotAt(text, start_idx + 1, {"}"})
         IN  FixCommonIssues(
                 IF brace_count > 0 THEN SubSeq(closed, start_idx, Len(closed))
                 ELSE IF brace_count < 0
                 THEN SubSeq(text, start_idx, IF cut <= Len(text) THEN cut ELSE Len(text))
                 ELSE SubSeq(text, start_idx, m[2] - 1))

(***************************************************************************)
(* _validate_quiz                                                          *)
(***************************************************************************)
RequiredMcq == 3
RequiredShort == 2
MaxOptions == 4

Raise(kind, what, got) == [kind |-> kind, what |-> what, got |-> got]
Return(quiz) == [kind |-> "return", quiz |-> quiz]

\* for q in v: the items the loop visits (a str yields its characters, a dict
\* its keys); a number or None is not iterable
IsIterable(v) == v.t \in {"list", "str", "dict"}

IterItems(v) ==
    IF v.t = "list" THEN v.items
    ELSE IF v.t = "str" THEN [i \in 1..Len(v.s) |-> Str(<<v.s[i]>>)]
    ELSE [i \in 1..Len(v.keys) |-> Str(v.keys[i])]

\* q.get(k, "").strip() raises AttributeError unless the value is a str
FieldIsStr(q, k) == DictGet(q, k, Str(<<>>)).t = "str"

\* q.get(k, "").strip()
StrippedField(q, k) == Strip(DictGet(q, k, Str(<<>>)).s)

\* q.get(k, "") before .strip()
RawField(q, k) == DictGet(q, k, Str(<<>>)).s

\* q.get("options", [])
OptionsOf(q) == DictGet(q, KeyOptions, List(<<>>))

\* a mutant of AnswerAmong: the containment test is left out
AnswerAmongUnchecked(answer, options) == TRUE

\* answer in options
AnswerAmong(answer, options) == StrIn(answer, options)

\* a mutant of TooFew: the comparison is off by one
TooFewOffByOne(valid, required) == Len(valid) < required - 1

\* len(valid) < required
TooFew(valid, required) == Len(valid) < required

\* an entry of quiz["mcq"] raises AttributeError
McqRaises(q) ==
    q.t = "dict" /\ (~FieldIsStr(q, KeyQ) \/ ~FieldIsStr(q, KeyAnswer))

\* the condition under which an entry of quiz["mcq"] is appended to valid_mcq
McqValid(q) ==
    /\ q.t = "dict"
    /\ ~McqRaises(q)
    /\ LET question == StrippedField(q, KeyQ)
           options == OptionsOf(q)
           answer == StrippedField(q, KeyAnswer)
       IN  /\ question # <<>>
           /\ options.t = "list"
           /\ Len(options.items) >= 2
           /\ answer # <<>>
           /\ AnswerAmong(answer, options.items)

\* a mutant of McqCleaned: the question and the answer are stored as received
McqCleanedUntrimmed(q) ==
    [q |-> RawField(q, KeyQ),
     options |-> Take(OptionsOf(q).items, MaxOptions),
     answer |-> RawField(q, KeyAnswer)]

\* the dict appended to valid_mcq
McqCleaned(q) ==
    [q |-> StrippedField(q, KeyQ),
     options |-> Take(OptionsOf(q).items, MaxOptions),
     answer |-> StrippedField(q, KeyAnswer)]

\* an entry of quiz["short"] raises AttributeError
ShortRaises(q) ==
    q.t = "dict" /\ (~FieldIsStr(q, KeyQ) \/ ~FieldIsStr(q, KeyAnswer))

\* the condition under which an entry of quiz["short"] is appended to valid_short
ShortValid(q) ==
    /\ q.t = "dict"
    /\ ~ShortRaises(q)
    /\ StrippedField(q, KeyQ) # <<>>
    /\ StrippedField(q, KeyAnswer) # <<>>

\* the dict appended to valid_short
ShortCleaned(q) ==
    [q |-> StrippedField(q, KeyQ), answer |-> StrippedField(q, KeyAnswer)]

\* a mutant of FirstN: every valid entry is kept
FirstNKeepsAll(valid, n) == valid

\* valid[:n]
FirstN(valid, n) == Take(valid, n)

\* valid_mcq after the first loop has run over items
ValidMcq(items) ==
    LET kept == SelectSeq(items, McqValid)
    IN  [i \in 1..Len(kept) |-> McqCleaned(kept[i])]

\* valid_short after the second loop has run over items
ValidShort(items) ==
    LET kept == SelectSeq(items, ShortValid)
    IN  [i \in 1..Len(kept) |-> ShortCleaned(kept[i])]

\* _validate_quiz(quiz): what it returns or raises
ValidateQuiz(quiz) ==
    IF quiz.t # "dict" THEN Raise("AttributeError", "setdefault", 0)
    ELSE LET mcq == DictGet(quiz, KeyMcq, List(<<>>))
             short == DictGet(quiz, KeyShort, List(<<>>))
         IN  IF ~IsIterable(mcq) THEN Raise("TypeError", "mcq", 0)
             ELSE IF \E i \in 1..Len(IterItems(mcq)) : McqRaises(IterItems(mcq)[i])
             THEN Raise("AttributeError", "mcq", 0)
             ELSE IF ~IsIterable(short) THEN Raise("TypeError", "short", 0)
             ELSE IF \E i \in 1..Len(IterItems(short)) : ShortRaises(IterItems(short)[i])
             THEN Raise("AttributeError", "short", 0)
             ELSE LET valid_mcq == ValidMcq(IterItems(mcq))
                      valid_short == ValidShort(IterItems(short))
                  IN  IF TooFew(valid_mcq, RequiredMcq)
                      THEN Raise("RuntimeError", "mcq", Len(valid_mcq))
                      ELSE IF TooFew(valid_short, RequiredShort)
                      THEN Raise("RuntimeError", "short", Len(valid_short))
                      ELSE Return([mcq |-> FirstN(valid_mcq, RequiredMcq),
                                   short |-> FirstN(valid_short, RequiredShort)])

(***************************************************************************)
(* extract_json_safely                                                     *)
(***************************************************************************)
SampleLen == 500

\* strategy 2 is applicable: the regex finds a span
Strategy2Applies(cleaned) == HasBraceSpan(cleaned)

\* strategy 2's candidate: json_match.group(0)
Strategy2Candidate(cleaned) == BraceSpan(cleaned)

\* strategy 3 is applicable: a "{" exists and the scan ends with brace_count == 0
Strategy3Applies(cleaned) ==
    /\ Find(cleaned, "{") # 0
    /\ MatchBraces(cleaned, Find(cleaned, "{"))[1] = 0

\* strategy 3's candidate: cleaned[start_idx:end_idx]
Strategy3Candidate(cleaned) ==
    SubSeq(cleaned, Find(cleaned, "{"),
           MatchBraces(cleaned, Find(cleaned, "{"))[2] - 1)

\* the text strategy k hands to json.loads
Candidate(k, cleaned) ==
    IF k = 1 THEN cleaned
    ELSE IF k = 2 THEN Strategy2Candidate(cleaned)
    ELSE IF k = 3 THEN Strategy3Candidate(cleaned)
    ELSE RepairJson(cleaned)

\* strategy k's guard
Applies(k, cleaned) ==
    IF k = 2 THEN Strategy2Applies(cleaned)
    ELSE IF k = 3 THEN Strategy3Applies(cleaned)
    ELSE TRUE

\* a mutant of FallThrough: after strategy 1 fails the code goes straight to
\* the brace-balanced scan
FallThroughSkipsRegex(k) == IF k = 1 THEN 3 ELSE k + 1

\* the strategy block control falls into when strategy k did not return
FallThrough(k) == k + 1

\* a mutant of DiagnosticSample: the sample is cut from the sanitized text
DiagnosticSampleOfCleaned(text, cleaned) == Take(cleaned, SampleLen)

\* text[:500] in the final error message
DiagnosticSample(text, cleaned) == Take(text, SampleLen)

NoError == [msg |-> "", pos |-> 0]
ErrorOf(parse) == [msg |-> parse.msg, pos |-> parse.pos]

Attempt(k, outcome, err) == [strategy |-> k, outcome |-> outcome, err |-> err]

PcOf(k) ==
    IF k = 2 THEN "strategy2" ELSE IF k = 3 THEN "strategy3"
    ELSE IF k = 4 THEN "strategy4" ELSE "start"

\* what one strategy block does with the state: k is the block, cleaned the
\* sanitized text
StrategyStep(k, cleaned) ==
    LET parse == JsonLoads(Candidate(k, cleaned))
    IN  IF ~Applies(k, cleaned)
        THEN /\ rAttempts' = Append(rAttempts, Attempt(k, "not applicable", NoError))
             /\ rPc' = PcOf(FallThrough(k))
             /\ UNCHANGED rResult
        ELSE IF parse.ok
        THEN /\ rAttempts' = Append(rAttempts, Attempt(k, "parsed", NoError))
             /\ rResult' = [kind |-> "return", val |-> parse.val]
             /\ rPc' = "returned"
        ELSE IF k = 4
        THEN /\ rAttempts' = Append(rAttempts, Attempt(k, "failed", ErrorOf(parse)))
             /\ rResult' = [kind |-> "RuntimeError", what |-> "recovery",
                            err |-> ErrorOf(parse),
                            sample |-> DiagnosticSample(rRaw, cleaned)]
             /\ rPc' = "raised"
        ELSE /\ rAttempts' = Append(rAttempts, Attempt(k, "failed", ErrorOf(parse)))
             /\ rPc' = PcOf(FallThrough(k))
             /\ UNCHANGED rResult

(***************************************************************************)
(* clean_output_text (simplify_text.py)                                    *)
(***************************************************************************)
BUL == "bullet"    \* U+2022, the bullet character

\* the characters the regex class [a-z] matches
LowerLetters ==
    {"a", "b", "c", "d", "e", "f", "g", "h", "i", "j", "k", "l", "m",
     "n", "o", "p", "q", "r", "s", "t", "u", "v", "w", "x", "y", "z"}

\* the length of the match of FENCE + r'[a-z]*\n?' (tagged) or of FENCE at
\* position i, 0 when there is none; FENCE is three backticks
CodeFenceLenAt(s, i, tagged) ==
    IF ~StartsWithAt(s, Fence, i) THEN 0
    ELSE IF ~tagged THEN 3
    ELSE LET tag == RunLenAt(s, i + 3, LowerLetters)
         IN  3 + tag + (IF CharAt(s, i + 3 + tag) = NL THEN 1 ELSE 0)

\* re.sub(FENCE + r'[a-z]*\n?', '', s) when tagged, re.sub(FENCE, '', s)
\* otherwise
RECURSIVE RemoveCodeFences(_, _)
RemoveCodeFences(s, tagged) ==
    IF \A i \in 1..Len(s) : ~StartsWithAt(s, Fence, i) THEN s
    ELSE LET i == CHOOSE i \in 1..Len(s) :
                      /\ StartsWithAt(s, Fence, i)
                      /\ \A j \in 1..(i - 1) : ~StartsWithAt(s, Fence, j)
         IN  Take(s, i - 1)
                 \o RemoveCodeFences(Drop(s, i - 1 + CodeFenceLenAt(s, i, tagged)), tagged)

\* steps 1 and 2: code fences, bold, italic, headers and inline code
StripMarkdown(text) ==
    Unwrap(RemoveHeaders(Unwrap(Unwrap(
        RemoveCodeFences(RemoveCodeFences(text, TRUE), FALSE), "*", 2), "*", 1)), BT, 1)

\* step 3 (and step 8): "".join(c for c in s if c.isprintable() or c == '\n')
PrintableOrNewline(s) == FilterOut(s, NonPrintable \ {NL})

BulletMarkers == {"-", BUL, "*"}
NumberClosers == {".", ")"}
Bullet == <<"-", SP>>

\* the length of the match of r'^[-•*]\s+' on the line, 0 when there is none
BulletMarkerLen(line) ==
    IF CharAt(line, 1) \in BulletMarkers /\ CharAt(line, 2) \in Whitespace
    THEN 1 + RunLenAt(line, 2, Whitespace) ELSE 0

\* the length of the match of r'^\d+[.)]\s+' on the line, 0 when there is none
NumberMarkerLen(line) ==
    LET d == RunLen(line, Digits)
    IN  IF d >= 1 /\ CharAt(line, d + 1) \in NumberClosers /\ CharAt(line, d + 2) \in Whitespace
        THEN d + 1 + RunLenAt(line, d + 2, Whitespace) ELSE 0

\* step 4 for one stripped, non-empty line: its marker becomes "- ", a line
\* without a marker gets "- " in front
NormalizeBullet(line) ==
    IF BulletMarkerLen(line) > 0 THEN Bullet \o Drop(line, BulletMarkerLen(line))
    ELSE IF NumberMarkerLen(line) > 0 THEN Bullet \o Drop(line, NumberMarkerLen(line))
    ELSE IF Take(line, 2) # Bullet THEN Bullet \o line
    ELSE line

\* step 4: the stripped non-empty lines of the text, each with its bullet
\* normalized
NormalizedLines(text) ==
    LET split == SplitLines(text)
        stripped == [i \in 1..Len(split) |-> Strip(split[i])]
        kept == SelectSeq(stripped, LAMBDA line : line # <<>>)
    IN  [i \in 1..Len(kept) |-> NormalizeBullet(kept[i])]

MaxBullets == 10
MaxWords == 12

\* a mutant of FirstBullets: one bullet more is kept
FirstBulletsOneMore(lines) ==
    LET bullet_points == SelectSeq(lines, LAMBDA line : Take(line, 2) = Bullet)
    IN  Take(bullet_points, MaxBullets + 1)

\* step 5: the lines that start with "- ", the first 10 of them at most
FirstBullets(lines) ==
    LET bullet_points == SelectSeq(lines, LAMBDA line : Take(line, 2) = Bullet)
    IN  Take(bullet_points, MaxBullets)

\* s.split(): the maximal runs of characters that are no whitespace
RECURSIVE Words(_)
Words(s) ==
    LET from == RunLen(s, Whitespace)
        n == RunLenNotAt(s, from + 1, Whitespace)
    IN  IF n = 0 THEN <<>>
        ELSE <<SubSeq(s, from + 1, from + n)>> \o Words(Drop(s, from + n))

\* ' '.join(words)
RECURSIVE JoinWords(_)
JoinWords(words) ==
    IF Len(words) = 0 THEN <<>>
    ELSE IF Len(words) = 1 THEN words[1]
    ELSE words[1] \o <<SP>> \o JoinWords(Tail(words))

\* a mutant of CapWords: one word more is kept
CapWordsOneMore(content) ==
    IF Len(Words(content)) > MaxWords + 1 THEN JoinWords(Take(Words(content), MaxWords + 1))
    ELSE content

\* step 6: if word_count > 12: content = ' '.join(words[:12])
CapWords(content) ==
    IF Len(Words(content)) > MaxWords THEN JoinWords(Take(Words(content), MaxWords))
    ELSE content

\* step 6 for one bullet point: the body without the prefix, trimmed, runs of
\* spaces collapsed, capped at 12 words
PointContent(point) == CapWords(CollapseSpaces(Strip(Drop(point, 2))))

\* step 6: the bullet points with a non-empty content, rebuilt as "- content"
CleanedPoints(bullet_points) ==
    LET contents == [i \in 1..Len(bullet_points) |-> PointContent(bullet_points[i])]
        kept == SelectSeq(contents, LAMBDA content : content # <<>>)
    IN  [i \in 1..Len(kept) |-> Bullet \o kept[i]]

\* steps 1 to 5: the bullet points of the reply before they are cleaned
BulletPoints(text) == FirstBullets(NormalizedLines(PrintableOrNewline(StripMarkdown(text))))

\* clean_output_text, steps 1 to 8 in the order of the code
CleanOutputText(text) ==
    IF text = <<>> THEN <<>>
    ELSE Strip(PrintableOrNewline(JoinLines(CleanedPoints(BulletPoints(text)))))

(***************************************************************************)
(* The parts of the state a specification does not use stay idle.          *)
(***************************************************************************)
NoText == <<"none">>
NoValue == [t |-> "none"]
NoResult == [kind |-> "none"]

IdleNormalize ==
    /\ nModule = "quiz"
    /\ nText = <<>>
    /\ nOnce = NoText
    /\ nTwice = NoText
    /\ nPc = "idle"

IdleValidate ==
    /\ vQuiz = NoValue
    /\ vResult = NoResult
    /\ vPc = "idle"

IdleRecover ==
    /\ rRaw = <<>>
    /\ rCleaned = NoText
    /\ rAttempts = <<>>
    /\ rResult = NoResult
    /\ rPc = "idle"

IdleGenerate ==
    /\ gText = <<>>
    /\ gKey = <<>>
    /\ gReply = [kind |-> "none"]
    /\ gCleaned = NoText
    /\ gBackend = "none"
    /\ gRequests = <<>>
    /\ gResult = NoResult
    /\ gPc = "idle"

IdleSimplify ==
    /\ sText = <<>>
    /\ sKey = <<>>
    /\ sReply = [kind |-> "none"]
    /\ sCleaned = NoText
    /\ sRequests = <<>>
    /\ sRaw = NoText
    /\ sOutput = NoText
    /\ sResult = NoResult
    /\ sPc = "idle"

IdleStreak ==
    /\ dates_list = <<>>
    /\ today = <<>>
    /\ dates = <<>>
    /\ pair = 0
    /\ streak = 0
    /\ longest = 0
    /\ cResult = NoResult
    /\ cPc = "idle"

NoFile == [name |-> "none"]
NotStored == [kind |-> "absent"]

\* st.session_state without any of the keys
EmptySession ==
    [current_pdf_name |-> "none", raw_text |-> NoText, simplified_text |-> NotStored,
     current_quiz |-> NotStored, quiz_score |-> NotStored]

NothingShown == [radio |-> FALSE, generate |-> FALSE, submit |-> FALSE]

IdleSession ==
    /\ uploaded_file = NoFile
    /\ view_mode = "Original"
    /\ pressed = "none"
    /\ session_state = EmptySession
    /\ calls = <<>>
    /\ shown = NothingShown
    /\ uiPc = "off"

IdleOthers == IdleStreak /\ IdleSession

\* all sequences over S of length at most n
SeqsUpTo(S, n) == UNION {[1..k -> S] : k \in 0..n}

(***************************************************************************)
(* SpecNormalize: clean_input_text on every text of at most MaxTextLen     *)
(* characters of NormAlphabet, then again on its own output.               *)
(***************************************************************************)
MaxTextLen == 6
LongTextExtra == 1

NormAlphabet == {"a", SP, TAB, NL, CR, FF, ZW}
LineAlphabet == {"a", SP, TAB, NL}

\* texts around the length limit of module m: max_length + k letters, bare or
\* behind a space, and max_length + k characters with a tab inside
LongTexts(m) ==
    UNION { { Rep("a", MaxLengthOf(m) + k),
              <<SP>> \o Rep("a", MaxLengthOf(m) + k),
              Rep("a", MaxLengthOf(m) - 2) \o <<TAB>> \o Rep("a", k + 1) }
            : k \in 0..LongTextExtra }

InitNormalize ==
    /\ nModule \in {"quiz", "simplify"}
    /\ \/ nText \in SeqsUpTo(LineAlphabet, MaxTextLen)
       \/ nText \in SeqsUpTo(NormAlphabet, MaxTextLen - 2)
       \/ nText \in LongTexts(nModule)
    /\ nOnce = NoText
    /\ nTwice = NoText
    /\ nPc = "start"
    /\ IdleValidate
    /\ IdleRecover
    /\ IdleGenerate
    /\ IdleSimplify
    /\ IdleOthers

\* the caller normalizes the raw text
Normalize ==
    /\ nPc = "start"
    /\ nOnce' = CleanInputText(nText, MaxLengthOf(nModule))
    /\ nPc' = "once"
    /\ UNCHANGED <<nModule, nText, nTwice, valVars, recVars, genVars, simVars, otherVars>>

\* the caller normalizes the normalized text again
NormalizeAgain ==
    /\ nPc = "once"
    /\ nTwice' = CleanInputText(nOnce, MaxLengthOf(nModule))
    /\ nPc' = "twice"
    /\ UNCHANGED <<nModule, nText, nOnce, valVars, recVars, genVars, simVars, otherVars>>

NextNormalize == Normalize \/ NormalizeAgain

SpecNormalize == InitNormalize /\ [][NextNormalize]_vars

\* s contains n consecutive characters c
HasRun(s, c, n) ==
    \E i \in 1..(Len(s) - n + 1) : \A j \in i..(i + n - 1) : s[j] = c

\* C8: clean_input_text is idempotent
C8_Idempotent == nPc = "twice" => nTwice = nOnce

\* C9: the output of clean_input_text never holds 2 or more consecutive spaces
C9_NoDoubleSpace == nPc \in {"once", "twice"} => ~HasRun(nOnce, SP, 2)

\* C10: the output of clean_input_text never holds 3 or more consecutive newlines
C10_NoTripleNewline == nPc \in {"once", "twice"} => ~HasRun(nOnce, NL, 3)

\* C11: the output of clean_input_text holds no tab and no other non-printable
\* character except the newline
C11_OnlyPrintableAndNewline ==
    nPc \in {"once", "twice"} =>
        \A i \in 1..Len(nOnce) : nOnce[i] # TAB /\ (nOnce[i] = NL \/ IsPrintable(nOnce[i]))

\* C12: the output of clean_input_text is at most max_length + 3 characters
\* long; a trimmed text longer than max_length comes back as its first
\* max_length characters followed by "...", any other trimmed text comes back
\* as it is
C12_LengthLimit ==
    nPc \in {"once", "twice"} =>
        LET max_length == IF nModule = "quiz" THEN 10000 ELSE 8000
            trimmed == TrimmedText(nText)
        IN  /\ Len(nOnce) <= max_length + 3
            /\ Len(trimmed) > max_length =>
                   nOnce = SubSeq(trimmed, 1, max_length) \o <<".", ".", ".">>
            /\ Len(trimmed) <= max_length => nOnce = trimmed

\* C12 witness: the simplification module cut a trimmed text of 8001 characters
C12_Witness ==
    /\ nPc = "once"
    /\ nModule = "simplify"
    /\ Len(TrimmedText(nText)) = 8001
    /\ Len(nOnce) = 8003
    /\ SubSeq(nOnce, 8001, 8003) = <<".", ".", ".">>

(***************************************************************************)
(* SpecValidate: _validate_quiz on recovered objects whose "mcq" list      *)
(* holds at most MaxMcq entries of McqPool and whose "short" list holds at *)
(* most MaxShort entries of ShortPool; either key may be missing.          *)
(***************************************************************************)
MaxMcq == 4
MaxShort == 2

Mcq(q, options, answer) ==
    Dict(<<KeyQ, KeyOptions, KeyAnswer>>, <<Str(q), List(options), Str(answer)>>)

Short(q, answer) == Dict(<<KeyQ, KeyAnswer>>, <<Str(q), Str(answer)>>)

OptAB == <<Str(<<"a">>), Str(<<"b">>)>>
OptFive == <<Str(<<"a">>), Str(<<"b">>), Str(<<"c">>), Str(<<"d">>), Str(<<"e">>)>>
OptEmpty == <<Str(<<"a">>), Str(<<>>)>>

McqPool ==
    { Mcq(<<"Q">>, OptAB, <<"a">>),             \* well formed
      Mcq(<<" ", "Q">>, OptAB, <<" ", "b">>),   \* question and answer padded
      Mcq(<<"Q">>, OptFive, <<"e">>),           \* answer is the fifth option
      Mcq(<<"Q">>, OptEmpty, <<"a">>),          \* one option is the empty string
      Mcq(<<"Q">>, OptAB, <<"c">>),             \* answer is no option
      Str(<<"x">>) }                            \* not a dict

ShortPool ==
    { Short(<<"S">>, <<"A">>),                  \* well formed
      Short(<<"S", " ">>, <<SP>>),              \* answer is blank
      Str(<<"x">>) }                            \* not a dict

\* the recovered object with the given lists, each key present or left out
QuizObject(hasMcq, mcq, hasShort, short) ==
    Dict((IF hasMcq THEN <<KeyMcq>> ELSE <<>>) \o (IF hasShort THEN <<KeyShort>> ELSE <<>>),
         (IF hasMcq THEN <<List(mcq)>> ELSE <<>>) \o (IF hasShort THEN <<List(short)>> ELSE <<>>))

\* the mcq lists handed to the validator: every list of up to one item more
\* than required, and the longer lists of well-formed, padded and non-dict items
McqLists ==
    SeqsUpTo(McqPool, IF MaxMcq <= RequiredMcq + 1 THEN MaxMcq ELSE RequiredMcq + 1)
    \cup UNION { [1..k -> { Mcq(<<"Q">>, OptAB, <<"a">>),
                           Mcq(<<" ", "Q">>, OptAB, <<" ", "b">>),
                           Str(<<"x">>) }]
                     : k \in (RequiredMcq + 2)..MaxMcq }

InitValidate ==
    /\ \E hasMcq \in BOOLEAN, hasShort \in BOOLEAN :
       \E m \in (IF hasMcq THEN McqLists ELSE {<<>>}),
          s \in (IF hasShort THEN SeqsUpTo(ShortPool, MaxShort) ELSE {<<>>}) :
           vQuiz = QuizObject(hasMcq, m, hasShort, s)
    /\ vResult = NoResult
    /\ vPc = "start"
    /\ IdleNormalize
    /\ IdleRecover
    /\ IdleGenerate
    /\ IdleSimplify
    /\ IdleOthers

\* _validate_quiz(quiz) runs
Validate ==
    /\ vPc = "start"
    /\ vResult' = ValidateQuiz(vQuiz)
    /\ vPc' = "done"
    /\ UNCHANGED <<vQuiz, normVars, recVars, genVars, simVars, otherVars>>

NextValidate == Validate

SpecValidate == InitValidate /\ [][NextValidate]_vars

\* the entries of the recovered object's list under key k (none when k is missing)
InputItems(k) == DictGet(vQuiz, k, List(<<>>)).items

\* the positions of the entries of items the MCQ loop appends to valid_mcq
ValidMcqAt(items) == {i \in 1..Len(items) : McqValid(items[i])}

\* the positions of the entries of items the second loop appends to valid_short
ValidShortAt(items) == {i \in 1..Len(items) : ShortValid(items[i])}

\* an entry's answer, untrimmed, is equal to one of its options
RawAnswerAmong(q) ==
    q.t = "dict" /\ OptionsOf(q).t = "list" /\ StrIn(RawField(q, KeyAnswer), OptionsOf(q).items)

\* an entry's answer, trimmed, is equal to one of its options
TrimmedAnswerAmong(q) ==
    q.t = "dict" /\ OptionsOf(q).t = "list"
    /\ StrIn(Strip(RawField(q, KeyAnswer)), OptionsOf(q).items)

\* C2: with fewer than 3 valid MCQ entries or fewer than 2 valid short-answer
\* entries _validate_quiz raises the "Quiz incomplete" RuntimeError and returns no
\* quiz; a missing "mcq" or "short" key counts as an empty list and fails that
\* same check, with 0 entries reported
C2_TooFewFails ==
    vPc = "done" =>
        LET nMcq == Cardinality(ValidMcqAt(InputItems(KeyMcq)))
            nShort == Cardinality(ValidShortAt(InputItems(KeyShort)))
        IN  /\ nMcq < RequiredMcq => vResult = Raise("RuntimeError", "mcq", nMcq)
            /\ (nMcq >= RequiredMcq /\ nShort < RequiredShort)
                   => vResult = Raise("RuntimeError", "short", nShort)
            /\ ~DictHas(vQuiz, KeyMcq) => vResult = Raise("RuntimeError", "mcq", 0)
            /\ (nMcq >= RequiredMcq /\ ~DictHas(vQuiz, KeyShort))
                   => vResult = Raise("RuntimeError", "short", 0)

\* C2 witness: three valid MCQ entries, the "short" key missing, and the call failed
C2_Witness ==
    /\ vPc = "done"
    /\ Cardinality(ValidMcqAt(InputItems(KeyMcq))) >= RequiredMcq
    /\ ~DictHas(vQuiz, KeyShort)
    /\ vResult.kind = "RuntimeError"

\* C3 as stated: an MCQ entry whose answer field is not byte-for-byte equal to one
\* of its options is never counted as valid and never returned
C3_RawAnswerAmongOptions ==
    vPc = "done" =>
        /\ \A i \in 1..Len(InputItems(KeyMcq)) :
               ~RawAnswerAmong(InputItems(KeyMcq)[i]) => ~McqValid(InputItems(KeyMcq)[i])
        /\ Cardinality({i \in 1..Len(InputItems(KeyMcq)) :
                           RawAnswerAmong(InputItems(KeyMcq)[i])}) < RequiredMcq
               => vResult.kind # "return"

\* C3 as amended: an MCQ entry whose answer field, once trimmed, is not equal to
\* one of its options is never counted as valid and never returned
C3_TrimmedAnswerAmongOptions ==
    vPc = "done" =>
        /\ \A i \in 1..Len(InputItems(KeyMcq)) :
               ~TrimmedAnswerAmong(InputItems(KeyMcq)[i]) => ~McqValid(InputItems(KeyMcq)[i])
        /\ Cardinality({i \in 1..Len(InputItems(KeyMcq)) :
                           TrimmedAnswerAmong(InputItems(KeyMcq)[i])}) < RequiredMcq
               => vResult.kind # "return"
        /\ vResult.kind = "return" =>
               \A k \in 1..Len(vResult.quiz.mcq) :
                   \E i \in 1..Len(InputItems(KeyMcq)) :
                       /\ TrimmedAnswerAmong(InputItems(KeyMcq)[i])
                       /\ McqCleaned(InputItems(KeyMcq)[i]) = vResult.quiz.mcq[k]

\* C3 witness: the list holds an entry whose answer is none of its options beside
\* three valid ones, and the quiz was returned
C3_Witness ==
    /\ vPc = "done"
    /\ vResult.kind = "return"
    /\ \E i \in 1..Len(InputItems(KeyMcq)) :
           /\ InputItems(KeyMcq)[i].t = "dict"
           /\ ~TrimmedAnswerAmong(InputItems(KeyMcq)[i])
           /\ \E j \in (i + 1)..Len(InputItems(KeyMcq)) : McqValid(InputItems(KeyMcq)[j])

\* C4: in every returned MCQ item the answer is one of the returned options
C4_AnswerAmongReturnedOptions ==
    (vPc = "done" /\ vResult.kind = "return") =>
        \A k \in 1..Len(vResult.quiz.mcq) :
            StrIn(vResult.quiz.mcq[k].answer, vResult.quiz.mcq[k].options)

\* C5: in every returned MCQ item the options list holds 2 to 4 entries, each a
\* non-empty string
C5_OptionsNonEmpty ==
    (vPc = "done" /\ vResult.kind = "return") =>
        \A k \in 1..Len(vResult.quiz.mcq) :
            LET options == vResult.quiz.mcq[k].options
            IN  /\ Len(options) >= 2
                /\ Len(options) <= MaxOptions
                /\ \A j \in 1..Len(options) : options[j].t = "str" /\ options[j].s # <<>>

(***************************************************************************)
(* SpecRecover: extract_json_safely on every raw reply of at most          *)
(* MaxReplyLen characters of RecoverAlphabet, and on replies longer than   *)
(* the diagnostic sample.                                                  *)
(***************************************************************************)
MaxReplyLen == 5
LongExtra == 1

RecoverAlphabet == {"{", "}", "1", ":", ",", "#"}

\* replies of SampleLen + LongExtra characters: a markdown header mark before
\* unbalanced or unparsable text
LongReplies ==
    { <<"#">> \o Rep(c, SampleLen + LongExtra - 1) : c \in {"{", ":"} }

\* string values with and without the characters markdown is written in
MarkdownValues ==
    { <<"a">>, <<"2", "*", "3">>, <<"C", "#", SP, "x">>, <<"*", "a", "*">>,
      <<"a", SP, BT, "b", BT>> }

\* replies that are the text of a JSON object as json.dumps writes it
ValidReplies ==
    { <<"{", DQ, "a", DQ, ":", SP, DQ>> \o v \o <<DQ, "}">> : v \in MarkdownValues }

InitRecover ==
    /\ \/ rRaw \in SeqsUpTo(RecoverAlphabet, MaxReplyLen)
       \/ rRaw \in LongReplies
       \/ rRaw \in ValidReplies
    /\ rCleaned = NoText
    /\ rAttempts = <<>>
    /\ rResult = NoResult
    /\ rPc = "start"
    /\ IdleNormalize
    /\ IdleValidate
    /\ IdleGenerate
    /\ IdleSimplify
    /\ IdleOthers

\* lines 235-243: the empty-reply check, clean_json_output and strategy 1
Strategy1 ==
    /\ rPc = "start"
    /\ IF rRaw = <<>>
       THEN /\ rResult' = [kind |-> "RuntimeError", what |-> "empty"]
            /\ rPc' = "raised"
            /\ UNCHANGED <<rCleaned, rAttempts>>
       ELSE /\ rCleaned' = CleanJsonOutput(rRaw)
            /\ StrategyStep(1, CleanJsonOutput(rRaw))
    /\ UNCHANGED <<rRaw, normVars, valVars, genVars, simVars, otherVars>>

\* lines 245-251: regex extraction
Strategy2 ==
    /\ rPc = "strategy2"
    /\ StrategyStep(2, rCleaned)
    /\ UNCHANGED <<rRaw, rCleaned, normVars, valVars, genVars, simVars, otherVars>>

\* lines 253-272: brace-balanced extraction
Strategy3 ==
    /\ rPc = "strategy3"
    /\ StrategyStep(3, rCleaned)
    /\ UNCHANGED <<rRaw, rCleaned, normVars, valVars, genVars, simVars, otherVars>>

\* lines 274-282: repair, then the final error
Strategy4 ==
    /\ rPc = "strategy4"
    /\ StrategyStep(4, rCleaned)
    /\ UNCHANGED <<rRaw, rCleaned, normVars, valVars, genVars, simVars, otherVars>>

NextRecover == Strategy1 \/ Strategy2 \/ Strategy3 \/ Strategy4

SpecRecover == InitRecover /\ [][NextRecover]_vars

\* what strategy k comes to on the sanitized text, computed from the text alone
OutcomeOf(k, cleaned) ==
    IF ~Applies(k, cleaned) THEN "not applicable"
    ELSE IF JsonLoads(Candidate(k, cleaned)).ok THEN "parsed"
    ELSE "failed"

\* the strategies that ran, in the order they ran
Tried == [i \in 1..Len(rAttempts) |-> rAttempts[i].strategy]

\* C6: the strategies run in the order 1, 2, 3, 4 without a gap; each one runs
\* only after all the earlier ones failed or were not applicable; the first
\* one that parses ends the call with its value and nothing runs after it
C6_StrategiesInOrder ==
    /\ Len(rAttempts) <= 4
    /\ \A i \in 1..Len(rAttempts) :
          /\ Tried[i] = i
          /\ rAttempts[i].outcome = OutcomeOf(i, CleanJsonOutput(rRaw))
          /\ i < Len(rAttempts) => rAttempts[i].outcome # "parsed"
    /\ rPc \in {"strategy2", "strategy3", "strategy4"} =>
          /\ rPc = PcOf(Len(rAttempts) + 1)
          /\ rAttempts[Len(rAttempts)].outcome # "parsed"
    /\ rPc = "returned" =>
          /\ rAttempts # <<>>
          /\ rAttempts[Len(rAttempts)].outcome = "parsed"
          /\ rResult = [kind |-> "return",
                        val |-> JsonLoads(Candidate(Len(rAttempts), CleanJsonOutput(rRaw))).val]
          /\ ~ENABLED NextRecover

\* strategy 3 returns after strategy 1 and strategy 2 failed
C6_Witness ==
    /\ rPc = "returned"
    /\ Tried = <<1, 2, 3>>
    /\ rAttempts[1].outcome = "failed"
    /\ rAttempts[2].outcome = "failed"

\* no strategy parses the sanitized text
AllStrategiesFail(raw) ==
    \A k \in 1..4 : OutcomeOf(k, CleanJsonOutput(raw)) # "parsed"

\* C7: when no strategy parses a non-empty reply the call ends with the
\* recovery error, which carries the parser error of the repair attempt and
\* the first 500 characters of the raw reply
C7_FinalErrorAndSample ==
    (rPc \in {"returned", "raised"} /\ rRaw # <<>> /\ AllStrategiesFail(rRaw)) =>
        /\ rPc = "raised"
        /\ rResult.kind = "RuntimeError"
        /\ rResult.what = "recovery"
        /\ rResult.err = ErrorOf(JsonLoads(RepairJson(CleanJsonOutput(rRaw))))
        /\ rResult.sample = SubSeq(rRaw, 1, IF Len(rRaw) < 500 THEN Len(rRaw) ELSE 500)
        /\ Len(rResult.sample) <= 500

\* the error is raised for a reply longer than the sample whose sanitized text
\* differs from it within the sample
C7_Witness ==
    /\ rPc = "raised"
    /\ rResult.kind = "RuntimeError"
    /\ rResult.what = "recovery"
    /\ Len(rRaw) > 500
    /\ Len(rResult.sample) = 500
    /\ rResult.sample # SubSeq(rCleaned, 1, 500)

(***************************************************************************)
(* SpecQuiz: generate_quiz(text, api_key), step by step, for every text,   *)
(* key and backend answer of the sets below; the recovery steps are the    *)
(* actions of SpecRecover and the validation step is Validate.  Direct     *)
(* calls of _validate_quiz (InitValidate) run beside it.                   *)
(***************************************************************************)
MaxGenMcq == 5

GenTexts == { <<>>, <<SP>>, <<NL, TAB>>, <<ZW>>, <<ZW, SP>>, <<"a">>, <<SP, "a", ZW>> }

GenKeys == { <<>>, <<"s", "k", "-", "x">>, <<"g">> }

\* keys close to the prefix "sk-"
GenMoreKeys == { <<"s", "k", "-">>, <<"s", "k">>, <<"S", "K", "-", "x">>, <<SP, "s", "k", "-", "x">>,
                 <<"x", "s", "k", "-">> }

\* s with sep between its elements
RECURSIVE JoinWith(_, _)
JoinWith(texts, sep) ==
    IF texts = <<>> THEN <<>>
    ELSE IF Len(texts) = 1 THEN texts[1]
    ELSE texts[1] \o sep \o JoinWith(Tail(texts), sep)

\* the JSON text a model writes for the value v
RECURSIVE JsonText(_)
JsonText(v) ==
    IF v.t = "str" THEN <<DQ>> \o v.s \o <<DQ>>
    ELSE IF v.t = "list"
    THEN <<"[">> \o JoinWith([i \in 1..Len(v.items) |-> JsonText(v.items[i])], <<",", SP>>)
             \o <<"]">>
    ELSE IF v.t = "dict"
    THEN <<"{">> \o JoinWith([i \in 1..Len(v.keys) |->
                                 <<DQ>> \o v.keys[i] \o <<DQ, ":", SP>> \o JsonText(v.vals[i])],
                             <<",", SP>>) \o <<"}">>
    ELSE <<"n", "u", "l", "l">>

\* the text inside a markdown code fence tagged json
Fenced(text) == Fence \o <<"j", "s", "o", "n", NL>> \o text \o <<NL>> \o Fence

GenMcqPool ==
    { Mcq(<<"Q">>, OptAB, <<"a">>),             \* well formed
      Mcq(<<"Q">>, OptAB, <<"c">>) }            \* answer is no option

GoodShort == Short(<<"S">>, <<"A">>)            \* well formed
BlankShort == Short(<<"S">>, <<SP>>)            \* answer is blank

GenShortLists ==
    { <<>>, <<GoodShort>>, <<GoodShort, GoodShort>>, <<BlankShort, GoodShort, GoodShort>>,
      <<GoodShort, BlankShort, GoodShort, GoodShort>> }

\* the objects a model answers with
GenObjects ==
    { QuizObject(TRUE, m, TRUE, s) :
          m \in SeqsUpTo(GenMcqPool, MaxGenMcq), s \in GenShortLists }
    \cup { QuizObject(FALSE, <<>>, TRUE, <<GoodShort, GoodShort>>) }

\* values a model answers with that are no quiz: a list, an object whose "mcq"
\* is null, and an object whose first MCQ entry has a null question
GenMalformed ==
    { List(<<>>),
      Dict(<<KeyMcq, KeyShort>>, <<Null, List(<<>>)>>),
      Dict(<<KeyMcq, KeyShort>>,
           <<List(<<Dict(<<KeyQ, KeyOptions, KeyAnswer>>, <<Null, List(OptAB), Str(<<"a">>)>>)>>),
             List(<<>>)>>) }

\* the quiz of 3 MCQ entries and 2 short-answer entries, all different, whose
\* first question is q1
ScenarioQuiz(q1) ==
    QuizObject(TRUE,
               << Mcq(q1, <<Str(<<"a">>), Str(<<"b">>), Str(<<"c">>), Str(<<"d">>)>>, <<"a">>),
                  Mcq(<<"Q", "2">>, OptAB, <<"b">>),
                  Mcq(<<"Q", "3">>, <<Str(<<"x">>), Str(<<"y">>)>>, <<"x">>) >>,
               TRUE,
               << Short(<<"S", "1">>, <<"A", "1">>), Short(<<"S", "2">>, <<"A", "2">>) >>)

\* first questions: plain, padded, holding a zero-width space
PlainQuestions == { <<"Q", "1">>, <<SP, "Q", "1">>, <<"Q", ZW, "1">> }

\* first questions: plain, and holding a colon after a letter
ColonQuestions == { <<"Q", "1">>, <<"Q", ":", "1">> }

\* the JSON text written with single quotes and with a comma before the
\* closing brace
SingleQuotedText(text) ==
    [i \in 1..(Len(text) - 1) |-> IF text[i] = DQ THEN "'" ELSE text[i]] \o <<",", "}">>

\* what a backend call comes to: a transport failure, an envelope that is not
\* JSON, an envelope that is JSON of another shape than an object of lists of
\* objects, or an envelope whose first text payload is text (none when it is
\* empty); the text is an object bare, inside a code fence, or before a stray "}"
(***************************************************************************)
(* The backend's answer as a list of candidates (Gemini) or of choices     *)
(* (OpenAI).  A candidate is the list of its parts, a part is its text;    *)
(* NoText stands for a part without a "text" key or with a null text.  A   *)
(* choice is the list of at most one part, its message's content.          *)
(***************************************************************************)
MaxCandidates == 2
MaxParts == 2

PartTexts == { NoText, <<>>, <<SP>>, <<"{", "}">> }

\* where each candidate but the last ends, for n parts in c candidates
Cuts(n, c) ==
    { f \in [1..(c - 1) -> 0..n] : \A i \in 1..(c - 2) : f[i] <= f[i + 1] }

CutAt(f, i, n, c) == IF i = 0 THEN 0 ELSE IF i = c THEN n ELSE f[i]

\* every answer of at most MaxCandidates candidates holding at most MaxParts
\* parts in all
Envelopes ==
    { <<>> } \cup
    { [i \in 1..c |-> SubSeq(flat, CutAt(f, i - 1, Len(flat), c) + 1, CutAt(f, i, Len(flat), c))]
          : <<flat, c, f>> \in
              UNION { UNION { { <<parts, k, g>> : g \in Cuts(Len(parts), k) }
                                  : k \in 1..MaxCandidates }
                          : parts \in SeqsUpTo(PartTexts, MaxParts) } }

\* the answers an OpenAI endpoint gives: one message per choice
ChoiceEnvelopes == { env \in Envelopes : \A i \in 1..Len(env) : Len(env[i]) <= 1 }

\* if text_content: a str that is not empty
Truthy(text) == text # NoText /\ text # <<>>

\* quiz_generator.py lines 356-360, simplify_text.py lines 202-206: the inner
\* loop, the first part of the candidate whose text is truthy
FirstPartText(parts) ==
    LET hits == { j \in 1..Len(parts) : Truthy(parts[j]) }
    IN  IF hits = {} THEN NoText
        ELSE parts[CHOOSE j \in hits : \A k \in hits : j <= k]

\* a mutant of FirstText: only the first candidate is looked at
FirstTextOfFirstCandidate(candidates) ==
    IF candidates = <<>> THEN NoText ELSE FirstPartText(candidates[1])

\* quiz_generator.py lines 354-360, simplify_text.py lines 200-206: the outer
\* loop, the first candidate one of whose parts has a truthy text
FirstText(candidates) ==
    LET hits == { i \in 1..Len(candidates) : FirstPartText(candidates[i]) # NoText }
    IN  IF hits = {} THEN NoText
        ELSE FirstPartText(candidates[CHOOSE i \in hits : \A k \in hits : i <= k])

\* quiz_generator.py lines 428-433: the first choice whose message has a truthy
\* content
FirstContent(choices) ==
    LET content(choice) == IF choice = <<>> THEN NoText ELSE choice[1]
        hits == { i \in 1..Len(choices) : Truthy(content(choices[i])) }
    IN  IF hits = {} THEN NoText
        ELSE content(choices[CHOOSE i \in hits : \A k \in hits : i <= k])

\* the text payload of the backend's answer, NoText or empty when it has none
QuizPayload(reply, provider) ==
    IF reply.kind = "content" THEN reply.text
    ELSE IF provider = "openai" THEN FirstContent(reply.candidates)
    ELSE FirstText(reply.candidates)

\* _extract_text_from_response: the first truthy text, stripped, else ""
ExtractTextFromResponse(reply) ==
    IF reply.kind = "content" THEN Strip(reply.text)
    ELSE IF FirstText(reply.candidates) = NoText THEN <<>>
    ELSE Strip(FirstText(reply.candidates))

\* a reply cut off before its last closing brace
MissingBraceText(text) == Take(text, Len(text) - 1)

GenReplies ==
    { [kind |-> "URLError"], [kind |-> "HTTPError"], [kind |-> "invalid"], [kind |-> "shape"],
      [kind |-> "content", text |-> <<>>],
      [kind |-> "content", text |-> <<"{", "1", "}">>] }
    \cup { [kind |-> "content", text |-> JsonText(o)] : o \in GenObjects \cup GenMalformed }
    \cup { [kind |-> "content", text |-> Fenced(JsonText(o))] : o \in GenObjects }
    \cup { [kind |-> "content", text |-> JsonText(o) \o <<"}">>] : o \in GenObjects }

\* replies that hold a whole quiz of 3 MCQs and 2 short items: fenced, written
\* with single quotes, cut off before the last brace
ScenarioReplies ==
    { [kind |-> "content", text |-> Fenced(JsonText(ScenarioQuiz(q1)))] : q1 \in PlainQuestions }
    \cup { [kind |-> "content", text |-> SingleQuotedText(JsonText(ScenarioQuiz(q1)))]
               : q1 \in ColonQuestions }
    \cup { [kind |-> "content", text |-> MissingBraceText(JsonText(ScenarioQuiz(<<"Q", "1">>)))] }

\* the answers in the shape the endpoint of the key gives them
GenEnvelopes(api_key) ==
    { [kind |-> "candidates", candidates |-> env]
          : env \in IF StartsWithAt(api_key, <<"s", "k", "-">>, 1)
                    THEN ChoiceEnvelopes ELSE Envelopes }

\* the replies tried with the keys of GenMoreKeys
GenFewReplies ==
    { r \in GenReplies : r.kind # "content" \/ Len(r.text) <= 3 }

InitGenerate ==
    /\ gText \in GenTexts
    /\ gKey \in GenKeys \cup (IF gText = <<"a">> THEN GenMoreKeys ELSE {})
    /\ gReply \in (IF gKey \in GenKeys THEN GenReplies ELSE GenFewReplies)
                    \cup (IF gText = <<"a">> /\ gKey \in GenKeys \ {<<>>}
                          THEN GenEnvelopes(gKey) ELSE {})
                    \cup (IF gText = <<"a">> /\ gKey = <<"g">> THEN ScenarioReplies ELSE {})
    /\ gCleaned = NoText
    /\ gBackend = "none"
    /\ gRequests = <<>>
    /\ gResult = NoResult
    /\ gPc = "start"
    /\ IdleNormalize
    /\ IdleValidate
    /\ IdleRecover
    /\ IdleSimplify
    /\ IdleOthers

EmptyQuiz == Return([mcq |-> <<>>, short |-> <<>>])

\* a mutant of NothingLeft: an empty cleaned input goes to the backend
NothingLeftIgnored(cleaned_input) == FALSE

\* if not cleaned_input
NothingLeft(cleaned_input) == cleaned_input = <<>>

\* lines 542-550: the key check, the blank-text check, clean_input_text and the
\* check of its result
GenerateStart ==
    /\ gPc = "start"
    /\ IF gKey = <<>>
       THEN /\ gResult' = [kind |-> "ValueError", what |-> "key"]
            /\ gPc' = "done"
            /\ UNCHANGED gCleaned
       ELSE IF gText = <<>> \/ Strip(gText) = <<>>
       THEN /\ gResult' = EmptyQuiz
            /\ gPc' = "done"
            /\ UNCHANGED gCleaned
       ELSE /\ gCleaned' = CleanInputText(gText, QuizMaxLength)
            /\ IF NothingLeft(CleanInputText(gText, QuizMaxLength))
               THEN gResult' = EmptyQuiz /\ gPc' = "done"
               ELSE gPc' = "calling" /\ UNCHANGED gResult
    /\ UNCHANGED <<gText, gKey, gReply, gBackend, gRequests, normVars, valVars, recVars, simVars, otherVars>>

\* a mutant of ProviderOf: the prefix "sk" is enough
ProviderOfShortPrefix(api_key) ==
    IF StartsWithAt(api_key, <<"s", "k">>, 1) THEN "openai" ELSE "gemini"

\* api_key.startswith("sk-")
ProviderOf(api_key) == IF StartsWithAt(api_key, <<"s", "k", "-">>, 1) THEN "openai" ELSE "gemini"

\* what a call that brought no text payload raises: RuntimeError for a
\* transport failure and for an envelope that is not JSON, AttributeError (or
\* TypeError) from the .get chain for an envelope of another shape
BackendError(reply) ==
    [kind |-> IF reply.kind = "shape" THEN "AttributeError" ELSE "RuntimeError",
     what |-> reply.kind]

\* lines 553-557 with _call_openai and _call_gemini: the backend is picked by
\* the key's prefix and one request is sent to it; a failed call raises, an
\* answer without text raises RuntimeError, and the first text payload goes to
\* extract_json_safely
CallBackend ==
    /\ gPc = "calling"
    /\ gBackend' = ProviderOf(gKey)
    /\ gRequests' = Append(gRequests, ProviderOf(gKey))
    /\ IF gReply.kind \notin {"content", "candidates"}
       THEN /\ gResult' = BackendError(gReply)
            /\ gPc' = "done"
            /\ UNCHANGED recVars
       ELSE IF ~Truthy(QuizPayload(gReply, ProviderOf(gKey)))
       THEN /\ gResult' = [kind |-> "RuntimeError", what |-> "no content"]
            /\ gPc' = "done"
            /\ UNCHANGED recVars
       ELSE /\ rRaw' = QuizPayload(gReply, ProviderOf(gKey))
            /\ rPc' = "start"
            /\ gPc' = "recovering"
            /\ UNCHANGED <<gResult, rCleaned, rAttempts, rResult>>
    /\ UNCHANGED <<gText, gKey, gReply, gCleaned, normVars, valVars, simVars, otherVars>>

\* a mutant of RecoveryFailed: the backend is asked once more
RecoveryFailedAsksAgain ==
    /\ gPc = "recovering"
    /\ rPc = "raised"
    /\ gResult' = rResult
    /\ gPc' = IF Len(gRequests) < 2 THEN "calling" ELSE "done"
    /\ UNCHANGED <<gText, gKey, gReply, gCleaned, gBackend, gRequests, normVars, valVars, recVars, simVars, otherVars>>

\* extract_json_safely raised: the error leaves generate_quiz
RecoveryFailed ==
    /\ gPc = "recovering"
    /\ rPc = "raised"
    /\ gResult' = rResult
    /\ gPc' = "done"
    /\ UNCHANGED <<gText, gKey, gReply, gCleaned, gBackend, gRequests, normVars, valVars, recVars, simVars, otherVars>>

\* line 565: the recovered object goes to _validate_quiz
HandToValidator ==
    /\ gPc = "recovering"
    /\ rPc = "returned"
    /\ vQuiz' = rResult.val
    /\ vPc' = "start"
    /\ gPc' = "validating"
    /\ UNCHANGED <<vResult, gText, gKey, gReply, gCleaned, gBackend, gRequests, gResult, normVars, recVars, simVars, otherVars>>

\* lines 565-567: what _validate_quiz returned or raised leaves generate_quiz
GenerateEnd ==
    /\ gPc = "validating"
    /\ vPc = "done"
    /\ gResult' = vResult
    /\ gPc' = "done"
    /\ UNCHANGED <<gText, gKey, gReply, gCleaned, gBackend, gRequests, normVars, valVars, recVars, simVars, otherVars>>

InitQuiz == InitGenerate \/ InitValidate

NextQuiz ==
    \/ GenerateStart
    \/ CallBackend
    \/ Strategy1
    \/ Strategy2
    \/ Strategy3
    \/ Strategy4
    \/ RecoveryFailed
    \/ HandToValidator
    \/ Validate
    \/ GenerateEnd

SpecQuiz == InitQuiz /\ [][NextQuiz]_vars

\* the k-th smallest member of the set P of positions
Nth(P, k) == CHOOSE i \in P : Cardinality({j \in P : j <= i}) = k

\* the lists out.mcq and out.short hold exactly 3 and 2 items: the first 3
\* entries of mcq and the first 2 entries of short that the validator's
\* conditions accept, cleaned, in the order received
FirstValidOf(out, mcq, short) ==
    /\ Len(out.mcq) = 3
    /\ Len(out.short) = 2
    /\ Cardinality(ValidMcqAt(mcq)) >= 3
    /\ Cardinality(ValidShortAt(short)) >= 2
    /\ \A k \in 1..3 : out.mcq[k] = McqCleaned(mcq[Nth(ValidMcqAt(mcq), k)])
    /\ \A k \in 1..2 : out.short[k] = ShortCleaned(short[Nth(ValidShortAt(short), k)])

\* the quiz _validate_quiz returned is made of the first valid entries of vQuiz
ValidatorKeepsFirstValid ==
    (vPc = "done" /\ vResult.kind = "return") =>
        FirstValidOf(vResult.quiz, InputItems(KeyMcq), InputItems(KeyShort))

\* generate_quiz returned what _validate_quiz made of the recovered object
GeneratedFromRecovered ==
    /\ rPc = "returned"
    /\ vQuiz = rResult.val
    /\ vPc = "done"
    /\ gResult = vResult
    /\ FirstValidOf(gResult.quiz, InputItems(KeyMcq), InputItems(KeyShort))

\* C1 as stated: whenever _validate_quiz returns, and whenever generate_quiz
\* returns for a text that is not empty or whitespace-only, the result holds
\* exactly 3 MCQ items and 2 short-answer items, the first valid entries of the
\* recovered object in the order received
C1_ExactCardinality ==
    /\ ValidatorKeepsFirstValid
    /\ (gPc = "done" /\ gResult.kind = "return" /\ Strip(gText) # <<>>)
           => GeneratedFromRecovered

\* C1 as amended: the same, for generate_quiz on a text whose normalized form
\* is not empty
C1_ExactCardinalityOfNormalized ==
    /\ ValidatorKeepsFirstValid
    /\ (gPc = "done" /\ gResult.kind = "return"
            /\ CleanInputText(gText, QuizMaxLength) # <<>>)
           => GeneratedFromRecovered

\* C1 witness: generate_quiz returned a quiz for a reply whose object holds an
\* invalid entry before a valid one and more than 3 valid MCQ entries
C1_Witness ==
    /\ gPc = "done"
    /\ gResult.kind = "return"
    /\ CleanInputText(gText, QuizMaxLength) # <<>>
    /\ Cardinality(ValidMcqAt(InputItems(KeyMcq))) > 3
    /\ \E i \in 1..Len(InputItems(KeyMcq)) :
           /\ i \notin ValidMcqAt(InputItems(KeyMcq))
           /\ i < Nth(ValidMcqAt(InputItems(KeyMcq)), 3)

(***************************************************************************)
(* SpecSimplify: simplify_text(text, api_key), step by step, for every     *)
(* text, key and backend answer of the sets below.                         *)
(***************************************************************************)
MaxSimLines == 3
MaxSimLen == 4
WordsExtra == 3
LinesExtra == 2

SimTexts == GenTexts

SimKeys == GenKeys \cup GenMoreKeys

\* the lines a model answers with: a bare body, the markers the code knows
\* followed by a space, a marker followed by a tab, and a markdown header
SimLinePool ==
    { <<"a", SP, "b">>,
      <<"-", SP, "a", SP, "b">>,
      <<"*", SP, "a", SP, "b">>,
      <<BUL, SP, "a", SP, "b">>,
      <<"1", ".", SP, "a", SP, "b">>,
      <<"2", ")", SP, "a", SP, "b">>,
      <<"-", TAB, "a", SP, "b">>,
      <<"#", SP, "a">> }

SimAlphabet == {"a", SP, NL, TAB, "*", "#", "-", "."}

SimWordPool == <<"a", "b", "c", "d", "e", "f", "g", "h", "i", "j", "k", "l", "m", "n", "o", "p">>

\* k different one-letter words, separated by sep
WordsLine(k, sep) == JoinWith([i \in 1..k |-> <<SimWordPool[i]>>], sep)

\* k different lines, each made of marker and a body of two words
ManyLines(k, marker) == JoinLines([i \in 1..k |-> marker \o <<SimWordPool[i], SP, "x">>])

\* the text inside a plain markdown code fence
FencedText(text) == Fence \o <<NL>> \o text \o <<NL>> \o Fence

\* the text payloads a model answers with: a few lines of the pool, any short
\* text, one line of many words, many lines, and one line of words with
\* dashes between them
SimPayloads ==
    { JoinLines(lines) : lines \in SeqsUpTo(SimLinePool, MaxSimLines) }
    \cup SeqsUpTo(SimAlphabet, MaxSimLen)
    \cup UNION { { WordsLine(k, <<SP>>), <<"-", SP>> \o WordsLine(k, <<SP>>),
                   <<"-", SP>> \o WordsLine(k, <<SP, SP>>), WordsLine(k, <<TAB>>) }
                 : k \in (MaxWords - 1)..(MaxWords + WordsExtra) }
    \cup UNION { { ManyLines(k, <<>>), ManyLines(k, <<"-", SP>>), ManyLines(k, <<"1", ".", SP>>),
                   FencedText(ManyLines(k, <<"-", SP>>)),
                   <<"#", NL>> \o ManyLines(k, <<"*", SP>>) }
                 : k \in 4..(MaxBullets + LinesExtra) }
    \cup { WordsLine(k, <<SP, "-", SP>>) : k \in 4..6 }

\* what a backend call comes to, as in GenReplies
SimReplies ==
    { [kind |-> "URLError"], [kind |-> "HTTPError"], [kind |-> "invalid"], [kind |-> "shape"] }
    \cup { [kind |-> "content", text |-> payload] : payload \in SimPayloads }

\* the replies tried with the other texts and keys
SimFewReplies ==
    { r \in SimReplies : r.kind # "content" \/ Len(r.text) <= 1
                             \/ r.text = ManyLines(MaxBullets, <<"-", SP>>) }

InitSimplify ==
    /\ sText \in SimTexts
    /\ sKey \in SimKeys
    /\ sReply \in (IF sText = <<"a">> /\ sKey = <<"g">>
                    THEN SimReplies \cup { [kind |-> "candidates", candidates |-> env]
                                               : env \in Envelopes }
                    ELSE SimFewReplies)
    /\ sCleaned = NoText
    /\ sRequests = <<>>
    /\ sRaw = NoText
    /\ sOutput = NoText
    /\ sResult = NoResult
    /\ sPc = "start"
    /\ IdleNormalize
    /\ IdleValidate
    /\ IdleRecover
    /\ IdleGenerate
    /\ IdleOthers

ReturnText(text) == [kind |-> "return", text |-> text]

\* lines 230-238: the key check, the blank-text check, clean_input_text and the
\* check of its result
SimplifyStart ==
    /\ sPc = "start"
    /\ IF sKey = <<>>
       THEN /\ sResult' = [kind |-> "ValueError", what |-> "key"]
            /\ sPc' = "done"
            /\ UNCHANGED sCleaned
       ELSE IF sText = <<>> \/ Strip(sText) = <<>>
       THEN /\ sResult' = ReturnText(<<>>)
            /\ sPc' = "done"
            /\ UNCHANGED sCleaned
       ELSE /\ sCleaned' = CleanInputText(sText, SimplifyMaxLength)
            /\ IF NothingLeft(CleanInputText(sText, SimplifyMaxLength))
               THEN sResult' = ReturnText(<<>>) /\ sPc' = "done"
               ELSE sPc' = "calling" /\ UNCHANGED sResult
    /\ UNCHANGED <<sText, sKey, sReply, sRequests, sRaw, sOutput,
                   normVars, valVars, recVars, genVars, otherVars>>

\* lines 241-244: the endpoint the request goes to, whatever the key
SimplifyEndpoint(api_key) == "gemini"

\* lines 241-290: one request is sent; a failed call raises, and the first text
\* payload, stripped, is the raw output, which must not be empty
SimplifyCall ==
    /\ sPc = "calling"
    /\ sRequests' = Append(sRequests, SimplifyEndpoint(sKey))
    /\ IF sReply.kind \notin {"content", "candidates"}
       THEN /\ sResult' = BackendError(sReply)
            /\ sPc' = "done"
            /\ UNCHANGED sRaw
       ELSE IF ExtractTextFromResponse(sReply) = <<>>
       THEN /\ sResult' = [kind |-> "RuntimeError", what |-> "no content"]
            /\ sPc' = "done"
            /\ UNCHANGED sRaw
       ELSE /\ sRaw' = ExtractTextFromResponse(sReply)
            /\ sPc' = "cleaning"
            /\ UNCHANGED sResult
    /\ UNCHANGED <<sText, sKey, sReply, sCleaned, sOutput,
                   normVars, valVars, recVars, genVars, otherVars>>

MinOutputLen == 10
MinBullets == 5

\* s.count('- ')
BulletCount(s) == Cardinality({i \in 1..Len(s) : StartsWithAt(s, Bullet, i)})

\* lines 293-304: clean_output_text, then the checks of the length and of the
\* number of bullets
SimplifyClean ==
    /\ sPc = "cleaning"
    /\ sOutput' = CleanOutputText(sRaw)
    /\ sResult' = IF Len(Strip(CleanOutputText(sRaw))) < MinOutputLen
                  THEN [kind |-> "RuntimeError", what |-> "too short"]
                  ELSE IF BulletCount(CleanOutputText(sRaw)) < MinBullets
                  THEN [kind |-> "RuntimeError", what |-> "format"]
                  ELSE ReturnText(CleanOutputText(sRaw))
    /\ sPc' = "done"
    /\ UNCHANGED <<sText, sKey, sReply, sCleaned, sRequests, sRaw,
                   normVars, valVars, recVars, genVars, otherVars>>

NextSimplify == SimplifyStart \/ SimplifyCall \/ SimplifyClean

SpecSimplify == InitSimplify /\ [][NextSimplify]_vars

(***************************************************************************)
(* SpecPipelines: generate_quiz and simplify_text, one invocation of       *)
(* either.                                                                 *)
(***************************************************************************)
InitPipelines == InitGenerate \/ InitSimplify

NextPipelines == NextQuiz \/ NextSimplify

SpecPipelines == InitPipelines /\ [][NextPipelines]_vars

TypedOutcomes == {"return", "ValueError", "RuntimeError"}

\* C13: generate_quiz and simplify_text end by returning, with ValueError or
\* with RuntimeError, whatever the backend answers
C13_TypedErrorsOnly ==
    /\ gPc = "done" => gResult.kind \in TypedOutcomes
    /\ sPc = "done" => sResult.kind \in TypedOutcomes

\* the text is empty, whitespace-only, or normalizes to the empty string
NoInput(text, max_length) ==
    text = <<>> \/ (\A i \in 1..Len(text) : text[i] \in Whitespace)
        \/ CleanInputText(text, max_length) = <<>>

C15_AtMostOneRequest ==
    /\ Len(gRequests) <= 1
    /\ Len(sRequests) <= 1
    /\ gResult.kind \notin {"none", "return"} => gPc = "done"
    /\ sResult.kind \notin {"none", "return"} => sPc = "done"

\* C15 witness: generate_quiz ended with the error of a failed recovery after
\* its one request
C15_Witness ==
    /\ gPc = "done"
    /\ rPc = "raised"
    /\ gResult.kind = "RuntimeError"
    /\ Len(gRequests) = 1

\* the key begins with the three characters "sk-"
HasSkPrefix(key) == Len(key) >= 3 /\ key[1] = "s" /\ key[2] = "k" /\ key[3] = "-"

\* C16: generate_quiz sends its request to OpenAI when the key begins with
\* "sk-" and to Gemini for every other non-empty key, and once the call is
\* made exactly one provider has been contacted
C16_ProviderByKeyPrefix ==
    /\ gRequests # <<>> =>
           gRequests = <<IF HasSkPrefix(gKey) THEN "openai" ELSE "gemini">>
    /\ gPc \in {"recovering", "validating"} => Len(gRequests) = 1
    /\ (gPc = "done" /\ gKey # <<>> /\ ~NoInput(gText, 10000)) => Len(gRequests) = 1

\* C16 witness: generate_quiz returned a quiz that OpenAI was asked for
C16_Witness ==
    /\ gPc = "done"
    /\ HasSkPrefix(gKey)
    /\ gRequests = <<"openai">>
    /\ gResult.kind = "return"

\* C17: simplify_text sends its request to OpenAI when the key begins with
\* "sk-" and to Gemini for any other key
C17_SimplifyProviderByKeyPrefix ==
    sRequests # <<>> =>
        sRequests = <<IF HasSkPrefix(sKey) THEN "openai" ELSE "gemini">>

\* line.strip() for each line of the text, the empty ones left out
NonBlankLines(text) ==
    LET split == SplitLines(text)
        stripped == [i \in 1..Len(split) |-> Strip(split[i])]
    IN  SelectSeq(stripped, LAMBDA line : line # <<>>)

\* what follows the marker of a line: one of "-", the bullet character and "*"
\* followed by whitespace, or a number followed by "." or ")" and whitespace;
\* the whole line when it has no marker
LineBody(line) ==
    IF BulletMarkerLen(line) > 0 THEN Drop(line, BulletMarkerLen(line))
    ELSE IF NumberMarkerLen(line) > 0 THEN Drop(line, NumberMarkerLen(line))
    ELSE line

\* the lines of the output
OutputLines(output) == IF output = <<>> THEN <<>> ELSE SplitLines(output)

\* the output is made of the first bullets of the lines: one output line per
\* line, 10 at most, the k-th being "- " and the first 12 words of the body of
\* the k-th line
BulletsOf(lines, output) ==
    LET out == OutputLines(output)
    IN  /\ Len(out) <= 10
        /\ Len(out) = (IF Len(lines) > 10 THEN 10 ELSE Len(lines))
        /\ \A k \in 1..Len(out) :
               /\ Take(out[k], 2) = <<"-", SP>>
               /\ Words(Drop(out[k], 2)) = Take(Words(LineBody(lines[k])), 12)

\* C18: for a reply without markdown, of at most 10 non-empty lines with bodies
\* of at most 12 words, every non-empty line becomes "- " followed by its body
C18_LinesBecomeCanonicalBullets ==
    (/\ sPc = "done"
     /\ sOutput # NoText
     /\ StripMarkdown(sRaw) = sRaw
     /\ Len(NonBlankLines(sRaw)) <= 10
     /\ \A k \in 1..Len(NonBlankLines(sRaw)) :
            Len(Words(LineBody(NonBlankLines(sRaw)[k]))) <= 12)
        => LET lines == NonBlankLines(sRaw)
           IN  sOutput = JoinLines([k \in 1..Len(lines) |->
                             <<"-", SP>> \o JoinWords(Words(LineBody(lines[k])))])

\* C19: every bullet of the output has a body of at most 12 words, the first 12
\* words of the body of the bullet it is made from, all of them when they are
\* 12 or fewer
C19_WordCap ==
    (sPc = "done" /\ sOutput # NoText) =>
        LET out == OutputLines(sOutput)
            points == BulletPoints(sRaw)
        IN  /\ Len(out) = Len(points)
            /\ \A k \in 1..Len(out) :
                   /\ Len(Words(Drop(out[k], 2))) <= 12
                   /\ Words(Drop(out[k], 2)) = Take(Words(Drop(points[k], 2)), 12)
            /\ \A n \in 1..Len(SimWordPool) :
                   sRaw = <<"-", SP>> \o WordsLine(n, <<SP>>) =>
                       sOutput = <<"-", SP>> \o WordsLine(IF n > 12 THEN 12 ELSE n, <<SP>>)

\* C19 witness: a bullet of 15 words came out with its first 12 words
C19_Witness ==
    /\ sPc = "done"
    /\ sRaw = <<"-", SP>> \o WordsLine(15, <<SP>>)
    /\ sOutput = <<"-", SP>> \o WordsLine(12, <<SP>>)

\* C20 as stated: the output is made of the first 10 non-empty lines of the
\* reply, of all of them when they are fewer
C20_FirstTenLines ==
    (sPc = "done" /\ sOutput # NoText) => BulletsOf(NonBlankLines(sRaw), sOutput)

\* C20 as amended: the output is made of the first 10 non-empty lines of the
\* reply as it is after the removal of markdown and of the characters that are
\* neither printable nor a newline, of all of them when they are fewer
C20_FirstTenLinesAfterMarkdown ==
    (sPc = "done" /\ sOutput # NoText) =>
        BulletsOf(NonBlankLines(PrintableOrNewline(StripMarkdown(sRaw))), sOutput)

\* C20 witness: a fenced reply of 12 bullets came out as its first 10 bullets
C20_Witness ==
    /\ sPc = "done"
    /\ sRaw = FencedText(ManyLines(12, <<"-", SP>>))
    /\ sOutput = ManyLines(10, <<"-", SP>>)

\* the number of lines of the output that begin with "- "
BulletLineCount(output) ==
    Cardinality({k \in 1..Len(OutputLines(output)) :
                     Take(OutputLines(output)[k], 2) = <<"-", SP>>})

\* C21: simplify_text returns the cleaned result exactly when it has at least
\* 5 lines beginning with "- " and at least 10 characters, and raises
\* RuntimeError otherwise
C21_RejectsFewBulletLines ==
    (sPc = "done" /\ sOutput # NoText) =>
        /\ sResult.kind \in {"return", "RuntimeError"}
        /\ sResult.kind = "return" <=> (BulletLineCount(sOutput) >= 5 /\ Len(sOutput) >= 10)
        /\ sResult.kind = "return" => sResult.text = sOutput

\* the number of non-empty lines of the reply that start with a bullet marker
\* or a numbered marker
MarkerCount(text) ==
    Cardinality({k \in 1..Len(NonBlankLines(text)) :
                     LineBody(NonBlankLines(text)[k]) # NonBlankLines(text)[k]})

\* C22: a reply with fewer than 5 bullet markers ends in RuntimeError, however
\* many unmarked lines it has
C22_FewMarkersRejected ==
    (sPc = "done" /\ sRaw # NoText /\ MarkerCount(sRaw) < 5) =>
        sResult.kind = "RuntimeError"

\* the text is wrapped in a code fence tagged json
IsFenced(text) ==
    /\ Len(text) > 12
    /\ SubSeq(text, 1, 8) = <<BT, BT, BT, "j", "s", "o", "n", NL>>
    /\ SubSeq(text, Len(text) - 3, Len(text)) = <<NL, BT, BT, BT>>

\* the text between the opening and the closing fence
Unfenced(text) == SubSeq(text, 9, Len(text) - 4)

\* v is a non-empty string once trimmed by trim
IsText(v, trim(_)) == v.t = "str" /\ trim(v.s) # <<>>

\* a MultipleChoiceItem: a question, 2 to 4 non-empty options, and an answer
\* that, trimmed by trim, is one of the options
IsMcqItem(item, trim(_)) ==
    /\ item.t = "dict"
    /\ item.keys = <<KeyQ, KeyOptions, KeyAnswer>>
    /\ IsText(item.vals[1], trim)
    /\ item.vals[2].t = "list"
    /\ Len(item.vals[2].items) \in 2..4
    /\ \A i \in 1..Len(item.vals[2].items) : IsText(item.vals[2].items[i], LAMBDA s : s)
    /\ IsText(item.vals[3], trim)
    /\ \E i \in 1..Len(item.vals[2].items) : item.vals[2].items[i].s = trim(item.vals[3].s)

\* a short-answer item: a question and an answer, non-empty
IsShortItem(item, trim(_)) ==
    /\ item.t = "dict"
    /\ item.keys = <<KeyQ, KeyAnswer>>
    /\ IsText(item.vals[1], trim)
    /\ IsText(item.vals[2], trim)

\* an object with exactly 3 MCQ items and 2 short-answer items
IsQuizOf3And2(o, trim(_)) ==
    /\ o.t = "dict"
    /\ o.keys = <<KeyMcq, KeyShort>>
    /\ o.vals[1].t = "list"
    /\ o.vals[2].t = "list"
    /\ Len(o.vals[1].items) = 3
    /\ Len(o.vals[2].items) = 2
    /\ \A i \in 1..3 : IsMcqItem(o.vals[1].items[i], trim)
    /\ \A i \in 1..2 : IsShortItem(o.vals[2].items[i], trim)

\* the quiz made of the items of o, questions and answers trimmed by trim
QuizOf(o, trim(_)) ==
    [mcq |-> [i \in 1..3 |->
                 [q |-> trim(o.vals[1].items[i].vals[1].s),
                  options |-> o.vals[1].items[i].vals[2].items,
                  answer |-> trim(o.vals[1].items[i].vals[3].s)]],
     short |-> [i \in 1..2 |->
                 [q |-> trim(o.vals[2].items[i].vals[1].s),
                  answer |-> trim(o.vals[2].items[i].vals[2].s)]]]

\* the JSON value v with the characters of Gone taken out of its strings
RECURSIVE WithoutChars(_, _)
WithoutChars(v, Gone) ==
    IF v.t = "str" THEN Str(FilterOut(v.s, Gone))
    ELSE IF v.t = "list" THEN List([i \in 1..Len(v.items) |-> WithoutChars(v.items[i], Gone)])
    ELSE IF v.t = "dict"
    THEN Dict([i \in 1..Len(v.keys) |-> FilterOut(v.keys[i], Gone)],
              [i \in 1..Len(v.vals) |-> WithoutChars(v.vals[i], Gone)])
    ELSE v

MarkdownChars == {"*", "#", BT}

\* generate_quiz went through with a fenced reply whose text is a JSON value
\* without markdown characters
FencedReplyDone ==
    /\ gPc = "done"
    /\ gRequests # <<>>
    /\ gReply.kind = "content"
    /\ IsFenced(gReply.text)
    /\ \A i \in 1..Len(Unfenced(gReply.text)) : Unfenced(gReply.text)[i] \notin MarkdownChars
    /\ JsonLoads(Unfenced(gReply.text)).ok

\* strategy 1 recovered the object o and generate_quiz returned the quiz
RecoveredAtOnce(o, quiz) ==
    /\ Len(rAttempts) = 1
    /\ rAttempts[1].strategy = 1
    /\ rAttempts[1].outcome = "parsed"
    /\ rResult = [kind |-> "return", val |-> o]
    /\ gResult = [kind |-> "return", quiz |-> quiz]

\* C23 as stated: a fenced reply holding a quiz object of 3 valid MCQs and 2
\* valid short items is recovered by strategy 1 and comes back as the quiz of
\* those items with unchanged field values
C23_FencedQuizUnchanged ==
    (FencedReplyDone
         /\ IsQuizOf3And2(JsonLoads(Unfenced(gReply.text)).val, LAMBDA s : s)) =>
        LET o == JsonLoads(Unfenced(gReply.text)).val
        IN  RecoveredAtOnce(o, QuizOf(o, LAMBDA s : s))

\* C23 as amended: the same for the object as it is once the non-printable
\* characters are out of its strings, validity judged on the trimmed questions
\* and answers, which come back trimmed
C23_FencedQuizSanitized ==
    (FencedReplyDone
         /\ IsQuizOf3And2(WithoutChars(JsonLoads(Unfenced(gReply.text)).val, NonPrintable), Strip)) =>
        LET o == WithoutChars(JsonLoads(Unfenced(gReply.text)).val, NonPrintable)
        IN  RecoveredAtOnce(o, QuizOf(o, Strip))

\* C23 witness: the fenced quiz with a padded first question came back with the
\* question trimmed
C23_Witness ==
    /\ FencedReplyDone
    /\ gReply.text = Fenced(JsonText(ScenarioQuiz(<<SP, "Q", "1">>)))
    /\ gResult.kind = "return"
    /\ gResult.quiz.mcq[1].q = <<"Q", "1">>
    /\ gResult.quiz.mcq[1].options = <<Str(<<"a">>), Str(<<"b">>), Str(<<"c">>), Str(<<"d">>)>>

\* strategies 1, 2 and 3 did not parse, strategy 4 recovered the object o and
\* generate_quiz returned the quiz
RecoveredByRepair(o, quiz) ==
    /\ Tried = <<1, 2, 3, 4>>
    /\ \A k \in 1..3 : rAttempts[k].outcome # "parsed"
    /\ rAttempts[4].outcome = "parsed"
    /\ rResult = [kind |-> "return", val |-> o]
    /\ gResult = [kind |-> "return", quiz |-> quiz]

\* C24: a quiz object of 3 valid MCQs and 2 valid short items written with
\* single quotes and a trailing comma fails strategies 1 to 3, is recovered by
\* strategy 4 with the same keys and values, and passes validation
C24_SingleQuotedRecovered ==
    \A q1 \in ColonQuestions :
        (/\ gPc = "done"
         /\ gRequests # <<>>
         /\ gReply = [kind |-> "content", text |-> SingleQuotedText(JsonText(ScenarioQuiz(q1)))])
            => RecoveredByRepair(ScenarioQuiz(q1), QuizOf(ScenarioQuiz(q1), Strip))

\* C26: when the text has k > 0 more opening than closing braces from its first
\* opening brace on, repair_json keeps the text from that brace and appends k
\* closing braces, so a quiz object that lacks only its last closing brace is
\* recovered by strategy 4
C26_MissingBraceRecovered ==
    (/\ gPc = "done"
     /\ gRequests # <<>>
     /\ gReply = [kind |-> "content",
                  text |-> MissingBraceText(JsonText(ScenarioQuiz(<<"Q", "1">>)))]) =>
        LET cleaned == CleanJsonOutput(gReply.text)
            start_idx == Find(cleaned, "{")
            k == MatchBraces(cleaned, start_idx)[1]
            o == ScenarioQuiz(<<"Q", "1">>)
        IN  /\ k > 0
            /\ RepairJson(cleaned) =
                   FixCommonIssues(SubSeq(cleaned, start_idx, Len(cleaned)) \o Rep("}", k))
            /\ RecoveredByRepair(o, QuizOf(o, Strip))

\* position <<i, j>> comes before position <<k, l>> in the walk over the
\* candidates and, within a candidate, over its parts
Before(i, j, k, l) == i < k \/ (i = k /\ j < l)

\* text is the first non-empty text payload of the answer
IsFirstPayload(candidates, text) ==
    \E k \in 1..Len(candidates) : \E l \in 1..Len(candidates[k]) :
        /\ candidates[k][l] = text
        /\ text \notin {NoText, <<>>}
        /\ \A i \in 1..k : \A j \in 1..Len(candidates[i]) :
               Before(i, j, k, l) => candidates[i][j] \in {NoText, <<>>}

\* no candidate holds a non-empty text payload
NoPayload(candidates) ==
    \A i \in 1..Len(candidates) : \A j \in 1..Len(candidates[i]) :
        candidates[i][j] \in {NoText, <<>>}

EmptyReplyError == [kind |-> "RuntimeError", what |-> "no content"]

\* C27: the extraction uses the first non-empty text payload in the order of the
\* candidates and of their parts, skipping missing and empty texts; without any
\* such payload the invocation fails with the empty-reply error and neither
\* recovery nor validation (for simplify_text, the cleaning) runs
C27_FirstNonEmptyPayload ==
    /\ (gReply.kind = "candidates" /\ gRequests # <<>>) =>
           IF NoPayload(gReply.candidates)
           THEN gResult = EmptyReplyError /\ gPc = "done" /\ rPc = "idle" /\ vPc = "idle"
           ELSE IsFirstPayload(gReply.candidates, rRaw)
    /\ (sReply.kind = "candidates" /\ sRequests # <<>>) =>
           IF NoPayload(sReply.candidates)
           THEN sResult = EmptyReplyError /\ sPc = "done" /\ sRaw = NoText /\ sOutput = NoText
           ELSE \E i \in 1..Len(sReply.candidates) : \E j \in 1..Len(sReply.candidates[i]) :
                    LET text == sReply.candidates[i][j]
                    IN  /\ IsFirstPayload(sReply.candidates, text)
                        /\ IF Strip(text) = <<>>
                           THEN sResult = EmptyReplyError /\ sRaw = NoText
                           ELSE sRaw = Strip(text)

\* C27 witness: the first candidate's part has no text, the second candidate's
\* part went to extract_json_safely
C27_Witness ==
    /\ gReply.kind = "candidates"
    /\ gReply.candidates = << <<NoText>>, << <<"{", "}">> >> >>
    /\ gPc = "done"
    /\ rRaw = <<"{", "}">>
    /\ Tried # <<>>

\* C28: when the raw reply is itself the text of a JSON object,
\* extract_json_safely returns the object json.loads gives for the raw reply,
\* whatever characters its string values hold
C28_ValidReplyUnchanged ==
    (rPc \in {"returned", "raised"} /\ JsonLoads(rRaw).ok /\ JsonLoads(rRaw).val.t = "dict") =>
        rResult = [kind |-> "return", val |-> JsonLoads(rRaw).val]

(***************************************************************************)
(* modules/gamification.py: calculate_streak.  A calendar day is a triple  *)
(* <<year, month, day>>, the value datetime.fromisoformat(d).date() has;   *)
(* two days are compared and subtracted by their day numbers.              *)
(***************************************************************************)
MaxDates == 3

IsLeap(y) == (y % 4 = 0 /\ y % 100 # 0) \/ y % 400 = 0

DaysInMonth(y, m) ==
    IF m = 2 THEN (IF IsLeap(y) THEN 29 ELSE 28)
    ELSE IF m \in {4, 6, 9, 11} THEN 30 ELSE 31

RECURSIVE DaysBeforeMonth(_, _)
DaysBeforeMonth(y, m) ==
    IF m = 1 THEN 0 ELSE DaysBeforeMonth(y, m - 1) + DaysInMonth(y, m - 1)

DaysBeforeYear(y) ==
    (y - 1) * 365 + ((y - 1) \div 4) - ((y - 1) \div 100) + ((y - 1) \div 400)

\* date.toordinal: the day number curr - prev is computed from
ToOrdinal(d) == DaysBeforeYear(d[1]) + DaysBeforeMonth(d[1], d[2]) + d[3]

\* the days sessions fall on: both sides of a year's end and of a leap day
DayPool ==
    { <<2023, 12, 31>>, <<2024, 1, 1>>, <<2024, 2, 28>>,
      <<2024, 2, 29>>, <<2024, 3, 1>>, <<2024, 3, 2>> }

\* line 26: sorted(...) of a set of dates
RECURSIVE SortedDates(_)
SortedDates(S) ==
    IF S = {} THEN <<>>
    ELSE LET first == CHOOSE d \in S : \A e \in S : ToOrdinal(d) <= ToOrdinal(e)
         IN <<first>> \o SortedDates(S \ {first})

\* line 26: the set comprehension drops repeated days
DateSet(list) == { list[i] : i \in 1..Len(list) }

MaxOf(a, b) == IF a >= b THEN a ELSE b

InitStreak ==
    /\ dates_list \in SeqsUpTo(DayPool, MaxDates)
    /\ today \in DayPool
    \* app.py lines 730-736: the days are those of logged sessions, none in the future
    /\ \A i \in 1..Len(dates_list) : ToOrdinal(dates_list[i]) <= ToOrdinal(today)
    /\ dates = <<>>
    /\ pair = 0
    /\ streak = 0
    /\ longest = 0
    /\ cResult = NoResult
    /\ cPc = "start"
    /\ IdleNormalize
    /\ IdleValidate
    /\ IdleRecover
    /\ IdleGenerate
    /\ IdleSimplify
    /\ IdleSession

\* lines 24-28: the empty list, else the sorted days and the two counters
StreakStart ==
    /\ cPc = "start"
    /\ IF dates_list = <<>>
       THEN /\ cResult' = [streak |-> 0]
            /\ cPc' = "done"
            /\ UNCHANGED <<dates, pair, streak, longest>>
       ELSE /\ dates' = SortedDates(DateSet(dates_list))
            /\ pair' = 1
            /\ streak' = 1
            /\ longest' = 1
            /\ cPc' = "loop"
            /\ UNCHANGED cResult
    /\ UNCHANGED <<dates_list, today, normVars, valVars, recVars, genVars, simVars, uiVars>>

\* lines 29-34: one pair (prev, curr) of zip(dates, dates[1:])
StreakPair ==
    /\ cPc = "loop"
    /\ pair < Len(dates)
    /\ IF ToOrdinal(dates[pair + 1]) - ToOrdinal(dates[pair]) = 1
       THEN streak' = streak + 1 /\ UNCHANGED longest
       ELSE longest' = MaxOf(longest, streak) /\ streak' = 1
    /\ pair' = pair + 1
    /\ UNCHANGED <<dates_list, today, dates, cResult, cPc,
                   normVars, valVars, recVars, genVars, simVars, uiVars>>

\* lines 35-36: after the last pair
StreakReturn ==
    /\ cPc = "loop"
    /\ pair >= Len(dates)
    /\ longest' = MaxOf(longest, streak)
    /\ cResult' = [streak |-> longest']
    /\ cPc' = "done"
    /\ UNCHANGED <<dates_list, today, dates, pair, streak,
                   normVars, valVars, recVars, genVars, simVars, uiVars>>

NextStreak == StreakStart \/ StreakPair \/ StreakReturn

SpecStreak == InitStreak /\ [][NextStreak]_vars

\* the length of the run of consecutive days in S that ends on day number n
RECURSIVE RunEndingAt(_, _)
RunEndingAt(S, n) ==
    IF n \notin S THEN 0 ELSE 1 + RunEndingAt(S, n - 1)

DayNumbers(list) == { ToOrdinal(list[i]) : i \in 1..Len(list) }

\* C25: calculate_streak returns the length of the run of consecutive calendar
\* days that ends today, 0 for an empty list; days of an earlier run that does
\* not reach today do not count
C25_StreakEndsToday ==
    cPc = "done" => cResult.streak = RunEndingAt(DayNumbers(dates_list), ToOrdinal(today))

(***************************************************************************)
(* app.py: the reader tab and the quiz tab over st.session_state.  One run *)
(* of the script follows each interaction: main_tabs renders the reader    *)
(* tab, then the quiz tab.  A widget that was not rendered in the last run *)
(* cannot be used, and the radio starts from "Original" when it comes      *)
(* back.  What simplify_text and generate_quiz return is kept as the text  *)
(* it was made from and the name of the PDF loaded at that time.           *)
(***************************************************************************)

\* the PDFs the learner has: two files of the same name, a file of another
\* name, a file without text
UploadedFiles ==
    { [name |-> "A", text |-> <<"x">>], [name |-> "A", text |-> <<"y">>],
      [name |-> "B", text |-> <<"z">>], [name |-> "E", text |-> <<>>] }

\* lines 658-664: the scores the submit button can store
Score(percent) == [kind |-> "score", percent |-> percent]
Scores == { Score(0), Score(100) }

Simplified(text, pdf) == [kind |-> "simplified", of |-> text, pdf |-> pdf]
Quiz(text, pdf) == [kind |-> "quiz", of |-> text, pdf |-> pdf]

InitSession ==
    /\ uploaded_file = NoFile
    /\ view_mode = "Original"
    /\ pressed = "none"
    /\ session_state = EmptySession
    /\ calls = <<>>
    /\ shown = NothingShown
    /\ uiPc = "reader"
    /\ IdleNormalize
    /\ IdleValidate
    /\ IdleRecover
    /\ IdleGenerate
    /\ IdleSimplify
    /\ IdleStreak

\* a mutant of Discarded: only raw_text is popped
DiscardedRawOnly(state, file) ==
    IF state.current_pdf_name # file.name
    THEN [state EXCEPT !.raw_text = NoText]
    ELSE state

\* lines 528-531: another name than current_pdf_name pops raw_text and
\* simplified_text
Discarded(state, file) ==
    IF state.current_pdf_name # file.name
    THEN [state EXCEPT !.raw_text = NoText, !.simplified_text = NotStored]
    ELSE state

\* lines 533-540: extract_text_from_pdf returned the file's text, or raised
Extracted(state, file, ok) ==
    IF ok THEN [state EXCEPT !.raw_text = file.text, !.current_pdf_name = file.name]
    ELSE state

\* if not raw_text: the key is missing or the text is empty
HasText(state) == state.raw_text # NoText /\ state.raw_text # <<>>

Call(name, ok, text) == [call |-> name, ok |-> ok, text |-> text]

\* lines 522-573: the reader tab
RenderReaderTab ==
    /\ uiPc = "reader"
    /\ \E extract_ok \in BOOLEAN, simplify_ok \in BOOLEAN :
           LET popped == IF uploaded_file = NoFile THEN session_state
                         ELSE Discarded(session_state, uploaded_file)
               extracting == uploaded_file # NoFile /\ popped.raw_text = NoText
               loaded == IF extracting THEN Extracted(popped, uploaded_file, extract_ok)
                         ELSE popped
               reading == uploaded_file # NoFile /\ HasText(loaded)
               simplifying == /\ reading
                              /\ view_mode = "Simplified"
                              /\ loaded.simplified_text = NotStored
           IN  /\ session_state' =
                      IF simplifying /\ simplify_ok
                      THEN [loaded EXCEPT !.simplified_text =
                                Simplified(loaded.raw_text, loaded.current_pdf_name)]
                      ELSE loaded
               /\ calls' =
                      (IF extracting
                       THEN <<Call("extract", extract_ok, uploaded_file.text)>> ELSE <<>>)
                      \o (IF simplifying
                          THEN <<Call("simplify", simplify_ok, loaded.raw_text)>> ELSE <<>>)
               /\ shown' = [shown EXCEPT !.radio = reading]
    /\ uiPc' = "quiz"
    /\ UNCHANGED <<uploaded_file, view_mode, pressed,
                   normVars, valVars, recVars, genVars, simVars, streakVars>>

\* lines 608-665: the quiz tab
RenderQuizTab ==
    /\ uiPc = "quiz"
    /\ \E generate_ok \in BOOLEAN, score \in Scores :
           LET enabled == HasText(session_state)
               generating == pressed = "generate" /\ enabled
               generated ==
                   IF generating /\ generate_ok
                   THEN [session_state EXCEPT
                             !.current_quiz = Quiz(session_state.raw_text,
                                                   session_state.current_pdf_name),
                             !.quiz_score = NotStored]
                   ELSE session_state
               has_mcq == generated.current_quiz # NotStored
               submitting == pressed = "submit" /\ has_mcq
           IN  /\ session_state' =
                      IF submitting THEN [generated EXCEPT !.quiz_score = score]
                      ELSE generated
               /\ calls' =
                      calls \o (IF generating
                                THEN <<Call("generate", generate_ok, session_state.raw_text)>>
                                ELSE <<>>)
               /\ shown' = [shown EXCEPT !.generate = enabled, !.submit = has_mcq]
    /\ uiPc' = "idle"
    /\ UNCHANGED <<uploaded_file, view_mode, pressed,
                   normVars, valVars, recVars, genVars, simVars, streakVars>>

\* an interaction starts the next run; the radio keeps its value only if the
\* last run rendered it
NextRun(file, view, button) ==
    /\ uiPc = "idle"
    /\ uploaded_file' = file
    /\ view_mode' = IF shown.radio THEN view ELSE "Original"
    /\ pressed' = button
    /\ calls' = <<>>
    /\ uiPc' = "reader"
    /\ UNCHANGED <<session_state, shown,
                   normVars, valVars, recVars, genVars, simVars, streakVars>>

\* lines 462-467: the file uploader gets another file, or is cleared
Upload ==
    \E file \in (UploadedFiles \cup {NoFile}) \ {uploaded_file} :
        NextRun(file, view_mode, "none")

\* lines 551-556: the view radio
ChooseView ==
    /\ shown.radio
    /\ \E view \in {"Original", "Simplified"} \ {view_mode} :
           NextRun(uploaded_file, view, "none")

\* lines 619-623: the Generate Quiz button, when it is not disabled
PressGenerate ==
    /\ shown.generate
    /\ NextRun(uploaded_file, view_mode, "generate")

\* line 656: the Submit Quiz button
PressSubmit ==
    /\ shown.submit
    /\ NextRun(uploaded_file, view_mode, "submit")

\* lines 442-455: a widget neither tab reads, such as the theme radio
OtherWidget ==
    /\ uiPc = "idle"
    /\ NextRun(uploaded_file, view_mode, "none")

NextSession ==
    \/ RenderReaderTab
    \/ RenderQuizTab
    \/ Upload
    \/ ChooseView
    \/ PressGenerate
    \/ PressSubmit
    \/ OtherWidget

SpecSession == InitSession /\ [][NextSession]_vars

\* C29: after any sequence of uploads, quiz generations and reruns, the quiz in
\* current_quiz was generated from the text of the PDF that is loaded now; a PDF
\* of another name does not leave the previous PDF's quiz in place
C29_QuizOfLoadedPdf ==
    (uiPc = "idle" /\ session_state.current_quiz # NotStored /\ HasText(session_state)) =>
        /\ session_state.current_quiz.of = session_state.raw_text
        /\ session_state.current_quiz.pdf = session_state.current_pdf_name

\* the positions of the calls of simplify_text in a run's calls
SimplifyCalls(run) == { i \in 1..Len(run) : run[i].call = "simplify" }

\* C30: in every run of the reader tab, a file of another name than
\* current_pdf_name discards raw_text and simplified_text before the text is
\* extracted again; simplify_text is called exactly when the Simplified view
\* is rendered without a cached simplified_text, its result is cached and a
\* failure caches nothing; the cached simplified_text is the one of the loaded
\* PDF's text
C30_SimplifiedOfLoadedPdf ==
    [][ (uiPc = "reader" /\ uiPc' = "quiz") =>
          LET new_name == /\ uploaded_file # NoFile
                          /\ uploaded_file.name # session_state.current_pdf_name
              cached == IF new_name THEN NotStored ELSE session_state.simplified_text
              after == session_state'
          IN  /\ new_name =>
                     /\ calls' # <<>> /\ calls'[1].call = "extract"
                     /\ after.raw_text \in {NoText, uploaded_file.text}
                     /\ after.simplified_text \in
                            {NotStored, Simplified(uploaded_file.text, uploaded_file.name)}
              /\ Cardinality(SimplifyCalls(calls')) <= 1
              /\ SimplifyCalls(calls') # {} <=>
                     /\ uploaded_file # NoFile
                     /\ HasText(after)
                     /\ view_mode = "Simplified"
                     /\ cached = NotStored
              /\ \A i \in SimplifyCalls(calls') :
                     /\ calls'[i].text = after.raw_text
                     /\ after.simplified_text =
                            IF calls'[i].ok
                            THEN Simplified(after.raw_text, after.current_pdf_name)
                            ELSE NotStored
              /\ after.simplified_text # NotStored =>
                     /\ HasText(after)
                     /\ after.simplified_text =
                            Simplified(after.raw_text, after.current_pdf_name)
      ]_vars

\* C30 witness: with A loaded before, the file named B was extracted and
\* simplified in one run, and its simplified text is the cached one
C30_Witness ==
    /\ uiPc = "quiz"
    /\ session_state.current_quiz = Quiz(<<"x">>, "A")
    /\ uploaded_file = [name |-> "B", text |-> <<"z">>]
    /\ Len(calls) = 2
    /\ calls[2] = Call("simplify", TRUE, <<"z">>)
    /\ session_state.simplified_text = Simplified(<<"z">>, "B")

====
